---- MODULE Spec2Model ----
(***************************************************************************)
(* Olive: a declarative command-line argument parser (Go).                 *)
(*                                                                         *)
(* Strings are sequences of one-character strings, so that the token       *)
(* splitting of the parser (prefix test, split on "=", trimming of         *)
(* dashes) and the numeric conversions are computed, not assumed.          *)
(* Pointers are indices into heaps kept in the state: commands, flags and  *)
(* arguments live in `tree`, parse results in `results`.                   *)
(***************************************************************************)
EXTENDS Integers, Sequences, FiniteSets, TLC

VARIABLES
    tree,              \* the command tree: heaps of Command, Flag, Argument
    ncalls,            \* number of builder calls made so far
    lastCall,          \* the latest builder call: operation, command, names
    args,              \* the token list handed to ParseArgs
    pos,               \* number of tokens of args[1:] consumed by the loop
    pc,                \* "idle", "loop" or "done": position inside parse()
    commandStack,      \* argParser.commandStack
    semanticStack,     \* argParser.semanticStack
    results,           \* heap of ArgParseResult objects
    allowSubcommands,  \* argParser.allowSubcommands
    calls,             \* flag actions invoked so far, in order
    validated,         \* validator calls so far: the argument and the value
    ret,               \* what ParseArgs returned: result pointer and error
    peer               \* a second ParseArgs call on the same tree: its argParser

vars == <<tree, ncalls, lastCall, args, pos, pc, commandStack, semanticStack, results,
          allowSubcommands, calls, validated, ret, peer>>

parserVars == <<args, pos, pc, commandStack, semanticStack, results,
                allowSubcommands, calls, validated, ret, peer>>

----------------------------------------------------------------------------
(* Bounds *)

MaxArgs == 3

MaxCalls == 3

----------------------------------------------------------------------------
(* Strings *)

Dash == "-"

Eq == "="

EmptyStr == <<>>

HasPrefix(s, p) ==
    /\ Len(s) >= Len(p)
    /\ SubSeq(s, 1, Len(p)) = p

Contains(s, ch) == \E i \in 1..Len(s) : s[i] = ch

\* index of the first occurrence of ch in s, 0 when there is none
Index(s, ch) ==
    IF Contains(s, ch)
    THEN CHOOSE i \in 1..Len(s) : s[i] = ch /\ \A j \in 1..(i - 1) : s[j] # ch
    ELSE 0

RECURSIVE Split(_, _)
Split(s, ch) ==
    IF Contains(s, ch)
    THEN <<SubSeq(s, 1, Index(s, ch) - 1)>>
             \o Split(SubSeq(s, Index(s, ch) + 1, Len(s)), ch)
    ELSE <<s>>

RECURSIVE Join(_, _)
Join(parts, ch) ==
    IF Len(parts) = 0 THEN EmptyStr
    ELSE IF Len(parts) = 1 THEN parts[1]
    ELSE parts[1] \o <<ch>> \o Join(Tail(parts), ch)

RECURSIVE TrimLeft(_, _)
TrimLeft(s, ch) ==
    IF Len(s) > 0 /\ s[1] = ch THEN TrimLeft(Tail(s), ch) ELSE s

\* maps (Go map[string]T) are functions whose domain is a finite set of strings
EmptyMap == <<>>

MapPut(m, k, v) == [x \in (DOMAIN m) \cup {k} |-> IF x = k THEN v ELSE m[x]]

MapDelete(m, k) == [x \in (DOMAIN m) \ {k} |-> m[x]]

Range(f) == {f[x] : x \in DOMAIN f}

\* the tokens --name and -shortName
LongFlag(name) == <<"-", "-">> \o name

ShortFlag(shortName) == <<"-">> \o shortName

----------------------------------------------------------------------------
(* Type registry: typed values, conversions, validators *)

\* an interface{} value: a dynamic type and a value; the nil interface has none
NilValue == [typ |-> "nil", val |-> 0]

IntValue(n) == [typ |-> "int", val |-> n]

\* a float64 is kept as mant * 10^exp with exp <= 0 and no trailing zero digit
FloatValue(m, e) == [typ |-> "float64", val |-> <<m, e>>]

StringValue(s) == [typ |-> "string", val |-> s]

NoError == [kind |-> "nil", name |-> EmptyStr]

Error(k, n) == [kind |-> k, name |-> n]

DigitChars == <<"0", "1", "2", "3", "4", "5", "6", "7", "8", "9",
                "a", "b", "c", "d", "e", "f">>

IsDigit(ch, base) == \E i \in 1..base : DigitChars[i] = ch

DigitVal(ch) == (CHOOSE i \in 1..16 : DigitChars[i] = ch) - 1

RECURSIVE Digits(_, _, _)
\* value of the digit string s in the given base, read after the prefix acc
Digits(s, base, acc) ==
    IF Len(s) = 0 THEN acc
    ELSE Digits(Tail(s), base, acc * base + DigitVal(s[1]))

AllDigits(s, base) == \A i \in 1..Len(s) : IsDigit(s[i], base)

\* strconv.ParseUint(s, 0, 64): the base comes from the prefix
ParseUint(s) ==
    IF Len(s) = 0 THEN [ok |-> FALSE, n |-> 0]
    ELSE IF s[1] = "0"
    THEN IF Len(s) >= 3 /\ s[2] \in {"b", "B"}
         THEN [ok |-> AllDigits(SubSeq(s, 3, Len(s)), 2),
               n  |-> IF AllDigits(SubSeq(s, 3, Len(s)), 2)
                      THEN Digits(SubSeq(s, 3, Len(s)), 2, 0) ELSE 0]
         ELSE IF Len(s) >= 3 /\ s[2] \in {"o", "O"}
         THEN [ok |-> AllDigits(SubSeq(s, 3, Len(s)), 8),
               n  |-> IF AllDigits(SubSeq(s, 3, Len(s)), 8)
                      THEN Digits(SubSeq(s, 3, Len(s)), 8, 0) ELSE 0]
         ELSE IF Len(s) >= 3 /\ s[2] \in {"x", "X"}
         THEN [ok |-> AllDigits(SubSeq(s, 3, Len(s)), 16),
               n  |-> IF AllDigits(SubSeq(s, 3, Len(s)), 16)
                      THEN Digits(SubSeq(s, 3, Len(s)), 16, 0) ELSE 0]
         ELSE [ok |-> AllDigits(Tail(s), 8),
               n  |-> IF AllDigits(Tail(s), 8)
                      THEN Digits(Tail(s), 8, 0) ELSE 0]
    ELSE [ok |-> AllDigits(s, 10),
          n  |-> IF AllDigits(s, 10) THEN Digits(s, 10, 0) ELSE 0]

\* strconv.ParseInt(s, 0, bits.UintSize): optional sign, then ParseUint
ParseInt(s) ==
    IF Len(s) = 0 THEN [ok |-> FALSE, n |-> 0]
    ELSE IF s[1] = "+" THEN ParseUint(Tail(s))
    ELSE IF s[1] = "-"
    THEN [ok |-> ParseUint(Tail(s)).ok, n |-> 0 - ParseUint(Tail(s)).n]
    ELSE ParseUint(s)

RECURSIVE Normalize(_, _)
Normalize(m, e) ==
    IF m = 0 THEN <<0, 0>>
    ELSE IF e < 0 /\ m % 10 = 0 THEN Normalize(m \div 10, e + 1)
    ELSE <<m, e>>

\* strconv.ParseFloat(s, 64) on decimal literals: [sign] digits [. digits]
ParseUFloat(s) ==
    LET dot  == Index(s, ".")
        ip   == IF dot = 0 THEN s ELSE SubSeq(s, 1, dot - 1)
        fp   == IF dot = 0 THEN EmptyStr ELSE SubSeq(s, dot + 1, Len(s))
        good == /\ Len(ip) + Len(fp) > 0
                /\ AllDigits(ip, 10)
                /\ AllDigits(fp, 10)
    IN  [ok |-> good,
         v  |-> IF good THEN Normalize(Digits(ip \o fp, 10, 0), 0 - Len(fp))
                ELSE <<0, 0>>]

ParseFloat(s) ==
    IF Len(s) = 0 THEN [ok |-> FALSE, v |-> <<0, 0>>]
    ELSE IF s[1] = "+" THEN ParseUFloat(Tail(s))
    ELSE IF s[1] = "-"
    THEN [ok |-> ParseUFloat(Tail(s)).ok,
          v  |-> <<0 - ParseUFloat(Tail(s)).v[1], ParseUFloat(Tail(s)).v[2]>>]
    ELSE ParseUFloat(s)

\* Go's remainder truncates toward zero
GoRem(x, d) == IF x >= 0 THEN x % d ELSE 0 - ((0 - x) % d)

RECURSIVE Pow10(_)
Pow10(n) == IF n = 0 THEN 1 ELSE 10 * Pow10(n - 1)

\* the validators the callers install; "nil" is the absent validator
\*   even:       x%2 == 1            -> "must be even"
\*   roundsDown: math.Mod(x, 1) >= 0.5 -> "must round down"
\*   short:      len(x) > 5          -> "must be shorter than 6 chars"
\*   notBadVal:  x == "badVal"       -> "bad val"
BadVal == <<"b", "a", "d">>

ShortLimit == 5

validator(v, x) ==
    CASE v = "nil"        -> TRUE
      [] v = "even"       -> GoRem(x, 2) # 1
      [] v = "roundsDown" ->
            LET m == x[1]
                p == Pow10(0 - x[2])
            IN  ~(2 * GoRem(m, p) >= p)
      [] v = "short"      -> ~(Len(x) > ShortLimit)
      [] v = "notBadVal"  -> x # BadVal

----------------------------------------------------------------------------
(* Arguments *)

\* GetDefaultValue that takes the zero value of the kind for "no default"
GetDefaultValue_ZeroIsAbsent(a) ==
    [val |-> a.defaultValue,
     ok  |-> /\ a.defaultValue.typ # "nil"
             /\ a.defaultValue \notin {[typ |-> "int", val |-> 0],
                                       [typ |-> "float64", val |-> <<0, 0>>],
                                       [typ |-> "string", val |-> <<>>]}]

\* argumentBase.GetDefaultValue: the default and whether there is one
GetDefaultValue(a) ==
    [val |-> a.defaultValue, ok |-> a.defaultValue.typ # "nil"]

\* `if a.validator != nil { a.validator(v) }`: the calls made, each with the
\* argument and the value handed to its validator
invoked(a, v) ==
    IF a.validator = "nil" THEN <<>> ELSE <<[arg |-> a, val |-> v]>>

\* checkValue that never calls the validator
checkValue_NoValidator(a, raw) ==
    CASE a.kind = "int" ->
            IF ~ParseInt(raw).ok
            THEN [val |-> NilValue, err |-> Error("syntax", raw), validated |-> <<>>]
            ELSE [val |-> IntValue(ParseInt(raw).n), err |-> NoError,
                  validated |-> <<>>]
      [] a.kind = "float" ->
            IF ~ParseFloat(raw).ok
            THEN [val |-> NilValue, err |-> Error("syntax", raw), validated |-> <<>>]
            ELSE [val |-> FloatValue(ParseFloat(raw).v[1], ParseFloat(raw).v[2]),
                  err |-> NoError, validated |-> <<>>]
      [] a.kind = "string" ->
            [val |-> StringValue(raw), err |-> NoError, validated |-> <<>>]
      [] a.kind = "selector" ->
            IF raw \notin a.possibleValues
            THEN [val |-> NilValue, err |-> Error("notValid", raw),
                  validated |-> <<>>]
            ELSE [val |-> StringValue(raw), err |-> NoError, validated |-> <<>>]

\* the validator's verdict on a typed value, with the record of the call
validate(a, x, v) ==
    IF ~validator(a.validator, x)
    THEN [val |-> NilValue, err |-> Error("validator", a.name),
          validated |-> invoked(a, v)]
    ELSE [val |-> v, err |-> NoError, validated |-> invoked(a, v)]

\* checkValue of a selector that validates before it tests the legal values
checkValue_ValidatorFirst(a, raw) ==
    CASE a.kind = "int" ->
            IF ~ParseInt(raw).ok
            THEN [val |-> NilValue, err |-> Error("syntax", raw), validated |-> <<>>]
            ELSE validate(a, ParseInt(raw).n, IntValue(ParseInt(raw).n))
      [] a.kind = "float" ->
            IF ~ParseFloat(raw).ok
            THEN [val |-> NilValue, err |-> Error("syntax", raw), validated |-> <<>>]
            ELSE validate(a, ParseFloat(raw).v,
                          FloatValue(ParseFloat(raw).v[1], ParseFloat(raw).v[2]))
      [] a.kind = "string" -> validate(a, raw, StringValue(raw))
      [] a.kind = "selector" ->
            IF validate(a, raw, StringValue(raw)).err.kind # "nil"
            THEN validate(a, raw, StringValue(raw))
            ELSE IF raw \notin a.possibleValues
            THEN [val |-> NilValue, err |-> Error("notValid", raw),
                  validated |-> invoked(a, StringValue(raw))]
            ELSE validate(a, raw, StringValue(raw))

\* IntArgument / FloatArgument / StringArgument / SelectorArgument .checkValue;
\* validated lists the values the validator was called with
checkValue(a, raw) ==
    CASE a.kind = "int" ->
            IF ~ParseInt(raw).ok
            THEN [val |-> NilValue, err |-> Error("syntax", raw), validated |-> <<>>]
            ELSE validate(a, ParseInt(raw).n, IntValue(ParseInt(raw).n))
      [] a.kind = "float" ->
            IF ~ParseFloat(raw).ok
            THEN [val |-> NilValue, err |-> Error("syntax", raw), validated |-> <<>>]
            ELSE validate(a, ParseFloat(raw).v,
                          FloatValue(ParseFloat(raw).v[1], ParseFloat(raw).v[2]))
      [] a.kind = "string" -> validate(a, raw, StringValue(raw))
      [] a.kind = "selector" ->
            IF raw \notin a.possibleValues
            THEN [val |-> NilValue, err |-> Error("notValid", raw),
                  validated |-> <<>>]
            ELSE validate(a, raw, StringValue(raw))

----------------------------------------------------------------------------
(* Command tree and its builder *)

HelpName == <<"h", "e", "l", "p">>

HelpShort == <<"h">>

EmptyTree == [commands |-> <<>>, flagObjs |-> <<>>, argObjs |-> <<>>,
              fatal |-> FALSE]

\* log.Fatalf: the process ends, the tree stays as it was at the call
Fatalf(t) == [t EXCEPT !.fatal = TRUE]

\* Command.AddFlag, with the action the caller then stores in the new Flag
AddFlag(t, c, name, shortName, action) ==
    IF t.fatal THEN t
    ELSE IF name \in DOMAIN t.commands[c].flags THEN Fatalf(t)
    ELSE IF shortName \in DOMAIN t.commands[c].flagsByShortName THEN Fatalf(t)
    ELSE LET f == Len(t.flagObjs) + 1
         IN  [t EXCEPT
                !.flagObjs = Append(@, [name |-> name, shortName |-> shortName,
                                        action |-> action]),
                !.commands[c].flags = MapPut(@, name, f),
                !.commands[c].flagsByShortName = MapPut(@, shortName, f)]

\* Flag.SetAction
SetAction(t, f, action) ==
    IF t.fatal THEN t ELSE [t EXCEPT !.flagObjs[f].action = action]

newCommand(t, name, helpEnabled) ==
    LET c  == Len(t.commands) + 1
        t1 == [t EXCEPT !.commands = Append(@,
                 [Name               |-> name,
                  RequiresSubcommand |-> TRUE,
                  subcommands        |-> EmptyMap,
                  flags              |-> EmptyMap,
                  args               |-> EmptyMap,
                  flagsByShortName   |-> EmptyMap,
                  argsByShortName    |-> EmptyMap,
                  primaryArg         |-> <<>>])]
    IN  IF helpEnabled THEN AddFlag(t1, c, HelpName, HelpShort, "help") ELSE t1

NewCLI(name, helpEnabled) == newCommand(EmptyTree, name, helpEnabled)

\* Command.AddSubcommand; the new command is the last one of the heap
AddSubcommand(t, c, name, helpEnabled) ==
    IF t.fatal THEN t
    ELSE IF t.commands[c].primaryArg # <<>> THEN Fatalf(t)
    ELSE IF name \in DOMAIN t.commands[c].subcommands THEN Fatalf(t)
    ELSE LET t1 == newCommand(t, name, helpEnabled)
         IN  [t1 EXCEPT !.commands[c].subcommands =
                            MapPut(@, name, Len(t1.commands))]

\* AddPrimaryArg without the test for subcommands
AddPrimaryArg_NoCheck(t, c, name, required) ==
    IF t.fatal THEN t
    ELSE [t EXCEPT !.commands[c].primaryArg =
                       <<[name |-> name, required |-> required]>>]

\* Command.AddPrimaryArg
AddPrimaryArg(t, c, name, required) ==
    IF t.fatal THEN t
    ELSE IF Cardinality(DOMAIN t.commands[c].subcommands) > 0 THEN Fatalf(t)
    ELSE [t EXCEPT !.commands[c].primaryArg =
                       <<[name |-> name, required |-> required]>>]

\* addArg without the test of the short name
addArg_NoShortCheck(t, c, arg) ==
    IF t.fatal THEN t
    ELSE IF arg.name \in DOMAIN t.commands[c].args THEN Fatalf(t)
    ELSE LET a == Len(t.argObjs) + 1
         IN  [t EXCEPT
                !.argObjs = Append(@, arg),
                !.commands[c].args = MapPut(@, arg.name, a),
                !.commands[c].argsByShortName = MapPut(@, arg.shortName, a)]

\* addArg that also refuses the names of the command's flags
addArg_SharedNamespace(t, c, arg) ==
    IF t.fatal THEN t
    ELSE IF arg.name \in DOMAIN t.commands[c].args \cup DOMAIN t.commands[c].flags
    THEN Fatalf(t)
    ELSE IF arg.shortName \in DOMAIN t.commands[c].argsByShortName
                                \cup DOMAIN t.commands[c].flagsByShortName
    THEN Fatalf(t)
    ELSE LET a == Len(t.argObjs) + 1
         IN  [t EXCEPT
                !.argObjs = Append(@, arg),
                !.commands[c].args = MapPut(@, arg.name, a),
                !.commands[c].argsByShortName = MapPut(@, arg.shortName, a)]

\* Command.addArg
addArg(t, c, arg) ==
    IF t.fatal THEN t
    ELSE IF arg.name \in DOMAIN t.commands[c].args THEN Fatalf(t)
    ELSE IF arg.shortName \in DOMAIN t.commands[c].argsByShortName THEN Fatalf(t)
    ELSE LET a == Len(t.argObjs) + 1
         IN  [t EXCEPT
                !.argObjs = Append(@, arg),
                !.commands[c].args = MapPut(@, arg.name, a),
                !.commands[c].argsByShortName = MapPut(@, arg.shortName, a)]

argumentBase(kind, name, shortName, required, possibleValues) ==
    [kind |-> kind, name |-> name, shortName |-> shortName,
     required |-> required, defaultValue |-> NilValue, validator |-> "nil",
     possibleValues |-> possibleValues]

AddIntArg(t, c, name, shortName, required) ==
    addArg(t, c, argumentBase("int", name, shortName, required, {}))

AddFloatArg(t, c, name, shortName, required) ==
    addArg(t, c, argumentBase("float", name, shortName, required, {}))

AddStringArg(t, c, name, shortName, required) ==
    addArg(t, c, argumentBase("string", name, shortName, required, {}))

AddSelectorArg(t, c, name, shortName, required, possibleValues) ==
    addArg(t, c, argumentBase("selector", name, shortName, required,
                              possibleValues))

\* {Int,Float,String,Selector}Argument.SetValidator
SetValidator(t, a, v) ==
    IF t.fatal THEN t ELSE [t EXCEPT !.argObjs[a].validator = v]

\* {Int,Float,String,Selector}Argument.SetDefaultValue; v is the typed value.
\* The selector checks the value with checkValue, the others call the
\* validator when one is installed.
SetDefaultValue(t, a, v) ==
    IF t.fatal THEN t
    ELSE IF t.argObjs[a].kind = "selector"
    THEN IF checkValue(t.argObjs[a], v.val).err.kind # "nil" THEN Fatalf(t)
         ELSE [t EXCEPT !.argObjs[a].defaultValue = v]
    ELSE IF /\ t.argObjs[a].validator # "nil"
            /\ ~validator(t.argObjs[a].validator, v.val)
    THEN Fatalf(t)
    ELSE [t EXCEPT !.argObjs[a].defaultValue = v]

\* Command.EnableHelp
EnableHelp(t, c) ==
    IF t.fatal THEN t
    ELSE IF HelpName \notin DOMAIN t.commands[c].args
    THEN AddFlag(t, c, HelpName, HelpShort, "help")
    ELSE t

\* Command.DisableHelp
DisableHelp(t, c) ==
    IF t.fatal THEN t
    ELSE IF HelpName \in DOMAIN t.commands[c].flags
    THEN [t EXCEPT !.commands[c].flags = MapDelete(@, HelpName),
                   !.commands[c].flagsByShortName = MapDelete(@, HelpShort)]
    ELSE t

\* assignment to the exported field Command.RequiresSubcommand
SetRequiresSubcommand(t, c, b) ==
    IF t.fatal THEN t ELSE [t EXCEPT !.commands[c].RequiresSubcommand = b]

----------------------------------------------------------------------------
(* The parser: argParser *)

NewResult == [flags |-> {}, Arguments |-> EmptyMap, subcommandName |-> EmptyStr,
              subcommandRes |-> 0, primaryArg |-> EmptyStr]

\* the split that keeps only what stands between the first and second "="
extractComponents_SecondPart(arg) ==
    IF Contains(arg, Eq)
    THEN [name |-> TrimLeft(Split(arg, Eq)[1], Dash),
          val  |-> Split(arg, Eq)[2]]
    ELSE [name |-> TrimLeft(arg, Dash), val |-> EmptyStr]

\* argParser.extractComponents
extractComponents(arg) ==
    IF Contains(arg, Eq)
    THEN [name |-> TrimLeft(Split(arg, Eq)[1], Dash),
          val  |-> Join(Tail(Split(arg, Eq)), Eq)]
    ELSE [name |-> TrimLeft(arg, Dash), val |-> EmptyStr]

\* a search of the stack from the root up
lookup_OutermostFirst(t, stack, i, field, name) ==
    LET hits == {j \in 1..i : name \in DOMAIN t.commands[stack[j]][field]}
    IN  IF hits = {} THEN 0
        ELSE CHOOSE j \in hits : \A h \in hits : j <= h

\* the loops `for i := len(ap.commandStack) - 1; i > -1; i--` of consume:
\* the first level, from the top of the stack down, whose map has the name
RECURSIVE lookup(_, _, _, _, _)
lookup(t, stack, i, field, name) ==
    IF i = 0 THEN 0
    ELSE IF name \in DOMAIN t.commands[stack[i]][field] THEN i
    ELSE lookup(t, stack, i - 1, field, name)

\* the state of one argParser, as a record
currCommand(ap) == ap.commandStack[Len(ap.commandStack)]

currResult(ap) == ap.semanticStack[Len(ap.semanticStack)]

\* setFlag without the test for a flag that is already set
setFlag_NoDuplicateCheck(t, ap, ndx, f) ==
    LET flag == t.flagObjs[f]
        r    == ap.semanticStack[ndx]
    IN  [ap   |-> [ap EXCEPT
                     !.results[r].flags = @ \cup {flag.name},
                     !.calls = IF flag.action # "nil" THEN Append(@, f) ELSE @],
         err  |-> NoError,
         exit |-> flag.action = "help"]

\* setFlag that records the flag in the Result of the innermost command
setFlag_CurrentScope(t, ap, ndx, f) ==
    LET flag == t.flagObjs[f]
        r    == currResult(ap)
    IN  IF flag.name \in ap.results[r].flags
        THEN [ap |-> ap, err |-> Error("flagMulti", flag.name), exit |-> FALSE]
        ELSE [ap   |-> [ap EXCEPT
                          !.results[r].flags = @ \cup {flag.name},
                          !.calls = IF flag.action # "nil"
                                    THEN Append(@, f) ELSE @],
              err  |-> NoError,
              exit |-> flag.action = "help"]

\* setFlag that runs the action before it looks for an earlier occurrence
setFlag_ActionFirst(t, ap, ndx, f) ==
    LET flag == t.flagObjs[f]
        r    == ap.semanticStack[ndx]
        ap1  == [ap EXCEPT !.calls = IF flag.action # "nil"
                                     THEN Append(@, f) ELSE @]
    IN  IF flag.name \in ap.results[r].flags
        THEN [ap |-> ap1, err |-> Error("flagMulti", flag.name),
              exit |-> flag.action = "help"]
        ELSE [ap   |-> [ap1 EXCEPT !.results[r].flags = @ \cup {flag.name}],
              err  |-> NoError,
              exit |-> flag.action = "help"]

\* argParser.setFlag; exit tells that the action ended the process
setFlag(t, ap, ndx, f) ==
    LET flag == t.flagObjs[f]
        r    == ap.semanticStack[ndx]
    IN  IF flag.name \in ap.results[r].flags
        THEN [ap |-> ap, err |-> Error("flagMulti", flag.name), exit |-> FALSE]
        ELSE [ap   |-> [ap EXCEPT
                          !.results[r].flags = @ \cup {flag.name},
                          !.calls = IF flag.action # "nil"
                                    THEN Append(@, f) ELSE @],
              err  |-> NoError,
              exit |-> flag.action = "help"]

\* setArg that checks the value before it looks for an earlier value
setArg_ValueFirst(t, ap, ndx, a, value) ==
    LET arg == t.argObjs[a]
        r   == ap.semanticStack[ndx]
        cv  == checkValue(arg, value)
        dup == arg.name \in DOMAIN ap.results[r].Arguments
    IN  [ap   |-> [ap EXCEPT
                     !.validated = @ \o cv.validated,
                     !.results[r].Arguments =
                         IF cv.err.kind = "nil" /\ ~dup
                         THEN MapPut(@, arg.name, cv.val) ELSE @],
         err  |-> IF cv.err.kind = "nil" /\ dup
                  THEN Error("argMulti", arg.name) ELSE cv.err,
         exit |-> FALSE]

\* argParser.setArg
setArg(t, ap, ndx, a, value) ==
    LET arg == t.argObjs[a]
        r   == ap.semanticStack[ndx]
    IN  IF arg.name \in DOMAIN ap.results[r].Arguments
        THEN [ap |-> ap, err |-> Error("argMulti", arg.name), exit |-> FALSE]
        ELSE LET cv == checkValue(arg, value)
             IN  [ap   |-> [ap EXCEPT
                              !.validated = @ \o cv.validated,
                              !.results[r].Arguments =
                                  IF cv.err.kind = "nil"
                                  THEN MapPut(@, arg.name, cv.val) ELSE @],
                  err  |-> cv.err, exit |-> FALSE]

\* the dash branches without `ap.allowSubcommands = false`
consumeNamed_KeepsLatch(t, ap, arg, flagField, argField, flagErr, argErr) ==
    LET comp == extractComponents(arg)
        top  == Len(ap.commandStack)
        fi   == lookup(t, ap.commandStack, top, flagField, comp.name)
        ai   == lookup(t, ap.commandStack, top, argField, comp.name)
    IN  IF comp.val = EmptyStr
        THEN IF fi # 0
             THEN setFlag(t, ap, fi,
                          t.commands[ap.commandStack[fi]][flagField][comp.name])
             ELSE [ap |-> ap, err |-> Error(flagErr, comp.name), exit |-> FALSE]
        ELSE IF ai # 0
             THEN setArg(t, ap, ai,
                         t.commands[ap.commandStack[ai]][argField][comp.name],
                         comp.val)
             ELSE [ap |-> ap, err |-> Error(argErr, comp.name), exit |-> FALSE]

\* the dash branches without the errors for names nobody declares
consumeNamed_SkipsUnknown(t, ap, arg, flagField, argField, flagErr, argErr) ==
    LET ap1  == [ap EXCEPT !.allowSubcommands = FALSE]
        comp == extractComponents(arg)
        top  == Len(ap1.commandStack)
        fi   == lookup(t, ap1.commandStack, top, flagField, comp.name)
        ai   == lookup(t, ap1.commandStack, top, argField, comp.name)
    IN  IF comp.val = EmptyStr
        THEN IF fi # 0
             THEN setFlag(t, ap1, fi,
                          t.commands[ap1.commandStack[fi]][flagField][comp.name])
             ELSE [ap |-> ap1, err |-> NoError, exit |-> FALSE]
        ELSE IF ai # 0
             THEN setArg(t, ap1, ai,
                         t.commands[ap1.commandStack[ai]][argField][comp.name],
                         comp.val)
             ELSE [ap |-> ap1, err |-> NoError, exit |-> FALSE]

\* the dash branches that clear the latch only for a name they know
consumeNamed_FailureKeepsLatch(t, ap, arg, flagField, argField, flagErr, argErr) ==
    LET ap1  == [ap EXCEPT !.allowSubcommands = FALSE]
        comp == extractComponents(arg)
        top  == Len(ap1.commandStack)
        fi   == lookup(t, ap1.commandStack, top, flagField, comp.name)
        ai   == lookup(t, ap1.commandStack, top, argField, comp.name)
    IN  IF comp.val = EmptyStr
        THEN IF fi # 0
             THEN setFlag(t, ap1, fi,
                          t.commands[ap1.commandStack[fi]][flagField][comp.name])
             ELSE [ap |-> ap, err |-> Error(flagErr, comp.name), exit |-> FALSE]
        ELSE IF ai # 0
             THEN setArg(t, ap1, ai,
                         t.commands[ap1.commandStack[ai]][argField][comp.name],
                         comp.val)
             ELSE [ap |-> ap, err |-> Error(argErr, comp.name), exit |-> FALSE]

\* the four dash branches of consume share this shape
consumeNamed(t, ap, arg, flagField, argField, flagErr, argErr) ==
    LET ap1  == [ap EXCEPT !.allowSubcommands = FALSE]
        comp == extractComponents(arg)
        top  == Len(ap1.commandStack)
        fi   == lookup(t, ap1.commandStack, top, flagField, comp.name)
        ai   == lookup(t, ap1.commandStack, top, argField, comp.name)
    IN  IF comp.val = EmptyStr
        THEN IF fi # 0
             THEN setFlag(t, ap1, fi,
                          t.commands[ap1.commandStack[fi]][flagField][comp.name])
             ELSE [ap |-> ap1, err |-> Error(flagErr, comp.name), exit |-> FALSE]
        ELSE IF ai # 0
             THEN setArg(t, ap1, ai,
                         t.commands[ap1.commandStack[ai]][argField][comp.name],
                         comp.val)
             ELSE [ap |-> ap1, err |-> Error(argErr, comp.name), exit |-> FALSE]

\* consume that looks for the subcommand among the children of every
\* command of the stack, innermost first
consume_AnyLevelChild(t, ap, arg) ==
    IF HasPrefix(arg, <<Dash, Dash>>)
    THEN consumeNamed(t, ap, arg, "flags", "args", "unknownFlag", "unknownArg")
    ELSE IF HasPrefix(arg, <<Dash>>)
    THEN consumeNamed(t, ap, arg, "flagsByShortName", "argsByShortName",
                      "unknownFlagShort", "unknownArgShort")
    ELSE IF t.commands[currCommand(ap)].primaryArg # <<>>
    THEN LET ap1 == [ap EXCEPT !.allowSubcommands = FALSE]
         IN  IF ap1.results[currResult(ap1)].primaryArg # EmptyStr
             THEN [ap |-> ap1,
                   err |-> Error("multiPrimary", t.commands[currCommand(ap1)].Name),
                   exit |-> FALSE]
             ELSE [ap |-> [ap1 EXCEPT !.results[currResult(ap1)].primaryArg = arg],
                   err |-> NoError, exit |-> FALSE]
    ELSE IF ap.allowSubcommands
    THEN LET lvl == lookup(t, ap.commandStack, Len(ap.commandStack),
                           "subcommands", arg)
         IN  IF lvl # 0
             THEN LET subc == t.commands[ap.commandStack[lvl]].subcommands[arg]
                      new  == Len(ap.results) + 1
                  IN  [ap |-> [ap EXCEPT
                                 !.commandStack = Append(@, subc),
                                 !.results = Append(
                                     [@ EXCEPT ![currResult(ap)].subcommandRes = new,
                                               ![currResult(ap)].subcommandName =
                                                   t.commands[subc].Name],
                                     NewResult),
                                 !.semanticStack = Append(@, new)],
                       err |-> NoError, exit |-> FALSE]
             ELSE [ap |-> ap, err |-> Error("unknownSubcommand", arg),
                   exit |-> FALSE]
    ELSE [ap |-> ap, err |-> Error("unknownSubcommand", arg), exit |-> FALSE]

\* consume that links every new Result to the root Result, ap.result
consume_LinksRoot(t, ap, arg) ==
    IF HasPrefix(arg, <<Dash, Dash>>)
    THEN consumeNamed(t, ap, arg, "flags", "args", "unknownFlag", "unknownArg")
    ELSE IF HasPrefix(arg, <<Dash>>)
    THEN consumeNamed(t, ap, arg, "flagsByShortName", "argsByShortName",
                      "unknownFlagShort", "unknownArgShort")
    ELSE IF t.commands[currCommand(ap)].primaryArg # <<>>
    THEN LET ap1 == [ap EXCEPT !.allowSubcommands = FALSE]
         IN  IF ap1.results[currResult(ap1)].primaryArg # EmptyStr
             THEN [ap |-> ap1,
                   err |-> Error("multiPrimary", t.commands[currCommand(ap1)].Name),
                   exit |-> FALSE]
             ELSE [ap |-> [ap1 EXCEPT !.results[currResult(ap1)].primaryArg = arg],
                   err |-> NoError, exit |-> FALSE]
    ELSE IF ap.allowSubcommands
    THEN IF arg \in DOMAIN t.commands[currCommand(ap)].subcommands
         THEN LET subc == t.commands[currCommand(ap)].subcommands[arg]
                  new  == Len(ap.results) + 1
              IN  [ap |-> [ap EXCEPT
                             !.commandStack = Append(@, subc),
                             !.results = Append(
                                 [@ EXCEPT ![1].subcommandRes = new,
                                           ![1].subcommandName =
                                               t.commands[subc].Name],
                                 NewResult),
                             !.semanticStack = Append(@, new)],
                   err |-> NoError, exit |-> FALSE]
         ELSE [ap |-> ap, err |-> Error("unknownSubcommand", arg), exit |-> FALSE]
    ELSE [ap |-> ap, err |-> Error("unknownSubcommand", arg), exit |-> FALSE]

\* consume that looks a single-dash name up among the full names as well
consume_OneNamespace(t, ap, arg) ==
    IF HasPrefix(arg, <<Dash, Dash>>)
    THEN consumeNamed(t, ap, arg, "flags", "args", "unknownFlag", "unknownArg")
    ELSE IF HasPrefix(arg, <<Dash>>)
    THEN consumeNamed(t, ap, arg, "flags", "args",
                      "unknownFlagShort", "unknownArgShort")
    ELSE IF t.commands[currCommand(ap)].primaryArg # <<>>
    THEN LET ap1 == [ap EXCEPT !.allowSubcommands = FALSE]
         IN  IF ap1.results[currResult(ap1)].primaryArg # EmptyStr
             THEN [ap |-> ap1,
                   err |-> Error("multiPrimary", t.commands[currCommand(ap1)].Name),
                   exit |-> FALSE]
             ELSE [ap |-> [ap1 EXCEPT !.results[currResult(ap1)].primaryArg = arg],
                   err |-> NoError, exit |-> FALSE]
    ELSE IF ap.allowSubcommands
    THEN IF arg \in DOMAIN t.commands[currCommand(ap)].subcommands
         THEN LET subc == t.commands[currCommand(ap)].subcommands[arg]
                  new  == Len(ap.results) + 1
              IN  [ap |-> [ap EXCEPT
                             !.commandStack = Append(@, subc),
                             !.results = Append(
                                 [@ EXCEPT ![currResult(ap)].subcommandRes = new,
                                           ![currResult(ap)].subcommandName =
                                               t.commands[subc].Name],
                                 NewResult),
                             !.semanticStack = Append(@, new)],
                   err |-> NoError, exit |-> FALSE]
         ELSE [ap |-> ap, err |-> Error("unknownSubcommand", arg), exit |-> FALSE]
    ELSE [ap |-> ap, err |-> Error("unknownSubcommand", arg), exit |-> FALSE]

\* argParser.consume
consume(t, ap, arg) ==
    IF HasPrefix(arg, <<Dash, Dash>>)
    THEN consumeNamed(t, ap, arg, "flags", "args", "unknownFlag", "unknownArg")
    ELSE IF HasPrefix(arg, <<Dash>>)
    THEN consumeNamed(t, ap, arg, "flagsByShortName", "argsByShortName",
                      "unknownFlagShort", "unknownArgShort")
    ELSE IF t.commands[currCommand(ap)].primaryArg # <<>>
    THEN LET ap1 == [ap EXCEPT !.allowSubcommands = FALSE]
         IN  IF ap1.results[currResult(ap1)].primaryArg # EmptyStr
             THEN [ap |-> ap1,
                   err |-> Error("multiPrimary", t.commands[currCommand(ap1)].Name),
                   exit |-> FALSE]
             ELSE [ap |-> [ap1 EXCEPT !.results[currResult(ap1)].primaryArg = arg],
                   err |-> NoError, exit |-> FALSE]
    ELSE IF ap.allowSubcommands
    THEN IF arg \in DOMAIN t.commands[currCommand(ap)].subcommands
         THEN LET subc == t.commands[currCommand(ap)].subcommands[arg]
                  new  == Len(ap.results) + 1
              IN  [ap |-> [ap EXCEPT
                             !.commandStack = Append(@, subc),
                             !.results = Append(
                                 [@ EXCEPT ![currResult(ap)].subcommandRes = new,
                                           ![currResult(ap)].subcommandName =
                                               t.commands[subc].Name],
                                 NewResult),
                             !.semanticStack = Append(@, new)],
                   err |-> NoError, exit |-> FALSE]
         ELSE [ap |-> ap, err |-> Error("unknownSubcommand", arg), exit |-> FALSE]
    ELSE [ap |-> ap, err |-> Error("unknownSubcommand", arg), exit |-> FALSE]

\* the check without the test of RequiresSubcommand
missingSubcommand_IgnoresFlag(t, ap) ==
    Cardinality(DOMAIN t.commands[currCommand(ap)].subcommands) > 0

\* the check after the loop of parse: is a required subcommand missing?
missingSubcommand(t, ap) ==
    /\ Cardinality(DOMAIN t.commands[currCommand(ap)].subcommands) > 0
    /\ t.commands[currCommand(ap)].RequiresSubcommand

\* the default pass without the test for a value already recorded
fillLevel_Overwrite(t, c, res) ==
    LET withDefault == {a \in Range(t.commands[c].args) :
                           t.argObjs[a].defaultValue.typ # "nil"}
        names       == {t.argObjs[a].name : a \in withDefault}
        argOf(n)    == CHOOSE a \in withDefault : t.argObjs[a].name = n
    IN  [res EXCEPT !.Arguments =
            [n \in (DOMAIN @) \cup names |->
                IF n \in names THEN t.argObjs[argOf(n)].defaultValue
                ELSE @[n]]]

\* the inner loop of the default pass of parse, for one level of the stacks
fillLevel(t, c, res) ==
    LET withDefault == {a \in Range(t.commands[c].args) :
                           GetDefaultValue(t.argObjs[a]).ok}
        names       == {t.argObjs[a].name : a \in withDefault}
        argOf(n)    == CHOOSE a \in withDefault : t.argObjs[a].name = n
    IN  [res EXCEPT !.Arguments =
            [n \in (DOMAIN @) \cup names |->
                IF n \in DOMAIN @ THEN @[n]
                ELSE GetDefaultValue(t.argObjs[argOf(n)]).val]]

\* the default pass that serves the innermost command only
fillDefaults_TopOnly(t, ap, i) ==
    IF i = 0 THEN ap
    ELSE [ap EXCEPT !.results[ap.semanticStack[i]] =
                        fillLevel(t, ap.commandStack[i], @)]

\* the outer loop `for i := len(ap.commandStack) - 1; i > -1; i--` of parse
RECURSIVE fillDefaults(_, _, _)
fillDefaults(t, ap, i) ==
    IF i = 0 THEN ap
    ELSE fillDefaults(t,
            [ap EXCEPT !.results[ap.semanticStack[i]] =
                           fillLevel(t, ap.commandStack[i], @)],
            i - 1)

\* ParseArgs has not returned
NoReturn == [res |-> 0, err |-> NoError]

\* an argParser that starts from the Result of the first call
NewParser_KeepsResult ==
    [commandStack |-> <<1>>, semanticStack |-> <<1>>,
     results |-> IF results = <<>> THEN <<NewResult>> ELSE <<results[1]>>,
     allowSubcommands |-> TRUE, calls |-> <<>>, validated |-> <<>>]

\* the argParser as the first four statements of parse() leave it
NewParser ==
    [commandStack |-> <<1>>, semanticStack |-> <<1>>, results |-> <<NewResult>>,
     allowSubcommands |-> TRUE, calls |-> <<>>, validated |-> <<>>]

\* the loop `for _, arg := range args` of parse(), from token i on: the
\* parser it leaves, and the error or the exit that ended it early
RECURSIVE loop(_, _, _, _)
loop(t, ap, toks, i) ==
    IF i > Len(toks) THEN [ap |-> ap, err |-> NoError, exit |-> FALSE]
    ELSE LET o == consume(t, ap, toks[i])
         IN  IF o.exit \/ o.err.kind # "nil" THEN o
             ELSE loop(t, o.ap, toks, i + 1)

\* parse that refuses a token list which leaves a required argument unset
parse_ChecksRequired(t, toks) ==
    LET o == loop(t, NewParser, toks, 1)
        unset == {ia \in (1..Len(o.ap.commandStack)) \X (1..Len(t.argObjs)) :
                     /\ ia[2] \in Range(t.commands[o.ap.commandStack[ia[1]]].args)
                     /\ t.argObjs[ia[2]].required
                     /\ ~GetDefaultValue(t.argObjs[ia[2]]).ok
                     /\ t.argObjs[ia[2]].name \notin
                            DOMAIN o.ap.results[o.ap.semanticStack[ia[1]]].Arguments}
    IN  IF o.exit
        THEN [pc |-> "exited", ret |-> NoReturn, results |-> <<>>]
        ELSE IF o.err.kind # "nil"
        THEN [pc |-> "done", ret |-> [res |-> 0, err |-> o.err], results |-> <<>>]
        ELSE IF missingSubcommand(t, o.ap)
        THEN [pc |-> "done",
              ret |-> [res |-> 0,
                       err |-> Error("requiresSubcommand",
                                     t.commands[currCommand(o.ap)].Name)],
              results |-> <<>>]
        ELSE IF unset # {}
        THEN [pc |-> "done",
              ret |-> [res |-> 0, err |-> Error("notValid", EmptyStr)],
              results |-> <<>>]
        ELSE [pc |-> "done", ret |-> [res |-> 1, err |-> NoError],
              results |-> fillDefaults(t, o.ap, Len(o.ap.commandStack)).results]

\* argParser.parse run from start to end: how it ended, what it returned,
\* and the Results it handed out (none with an error)
parse(t, toks) ==
    LET o == loop(t, NewParser, toks, 1)
    IN  IF o.exit
        THEN [pc |-> "exited", ret |-> NoReturn, results |-> <<>>]
        ELSE IF o.err.kind # "nil"
        THEN [pc |-> "done", ret |-> [res |-> 0, err |-> o.err], results |-> <<>>]
        ELSE IF missingSubcommand(t, o.ap)
        THEN [pc |-> "done",
              ret |-> [res |-> 0,
                       err |-> Error("requiresSubcommand",
                                     t.commands[currCommand(o.ap)].Name)],
              results |-> <<>>]
        ELSE [pc |-> "done", ret |-> [res |-> 1, err |-> NoError],
              results |-> fillDefaults(t, o.ap, Len(o.ap.commandStack)).results]

----------------------------------------------------------------------------
(* State machine of one ParseArgs call *)

apOf == [commandStack |-> commandStack, semanticStack |-> semanticStack,
         results |-> results, allowSubcommands |-> allowSubcommands,
         calls |-> calls, validated |-> validated]

\* ParseArgs(cli, a) drops a[0]; parse() sets up the root result and the stacks
ParseArgsOf(a) ==
    /\ pc = "idle"
    /\ peer.pc # "exited"
    /\ ~tree.fatal
    /\ Len(a) >= 1
    /\ args' = a
    /\ results' = <<NewResult>>
    /\ commandStack' = <<1>>
    /\ semanticStack' = <<1>>
    /\ allowSubcommands' = TRUE
    /\ pos' = 0
    /\ pc' = "loop"
    /\ validated' = <<>>
    /\ UNCHANGED <<tree, ncalls, lastCall, calls, ret, peer>>

\* the call on the token list chosen at the start
ParseArgs == ParseArgsOf(args)

\* the iteration with `return ap.result, err` for a refused token
Consume_ReturnsResult ==
    /\ pc = "loop"
    /\ peer.pc # "exited"
    /\ pos < Len(Tail(args))
    /\ \E o \in {consume(tree, apOf, Tail(args)[pos + 1])} :
           /\ commandStack' = o.ap.commandStack
           /\ semanticStack' = o.ap.semanticStack
           /\ results' = o.ap.results
           /\ allowSubcommands' = o.ap.allowSubcommands
           /\ calls' = o.ap.calls
           /\ validated' = o.ap.validated
           /\ pos' = pos + 1
           /\ IF o.exit
              THEN pc' = "exited" /\ ret' = ret
              ELSE IF o.err.kind # "nil"
              THEN pc' = "done" /\ ret' = [res |-> 1, err |-> o.err]
              ELSE pc' = "loop" /\ ret' = ret
    /\ UNCHANGED <<tree, ncalls, lastCall, args, peer>>

\* the iteration that notes the error of a refused token and goes on
Consume_KeepsGoing ==
    /\ pc = "loop"
    /\ peer.pc # "exited"
    /\ pos < Len(Tail(args))
    /\ \E o \in {consume(tree, apOf, Tail(args)[pos + 1])} :
           /\ commandStack' = o.ap.commandStack
           /\ semanticStack' = o.ap.semanticStack
           /\ results' = o.ap.results
           /\ allowSubcommands' = o.ap.allowSubcommands
           /\ calls' = o.ap.calls
           /\ validated' = o.ap.validated
           /\ pos' = pos + 1
           /\ IF o.exit
              THEN pc' = "exited" /\ ret' = ret
              ELSE IF o.err.kind # "nil"
              THEN pc' = "loop" /\ ret' = [res |-> 0, err |-> o.err]
              ELSE pc' = "loop" /\ ret' = ret
    /\ UNCHANGED <<tree, ncalls, lastCall, args, peer>>

\* the iteration that marks the command it has served as needing no subcommand
Consume_ClearsRequirement ==
    /\ pc = "loop"
    /\ peer.pc # "exited"
    /\ pos < Len(Tail(args))
    /\ \E o \in {consume(tree, apOf, Tail(args)[pos + 1])} :
           /\ commandStack' = o.ap.commandStack
           /\ semanticStack' = o.ap.semanticStack
           /\ results' = o.ap.results
           /\ allowSubcommands' = o.ap.allowSubcommands
           /\ calls' = o.ap.calls
           /\ validated' = o.ap.validated
           /\ pos' = pos + 1
           /\ IF o.exit
              THEN pc' = "exited" /\ ret' = ret
              ELSE IF o.err.kind # "nil"
              THEN pc' = "done" /\ ret' = [res |-> 0, err |-> o.err]
              ELSE pc' = "loop" /\ ret' = ret
    /\ tree' = [tree EXCEPT
                  !.commands[currCommand(apOf)].RequiresSubcommand = FALSE]
    /\ UNCHANGED <<ncalls, lastCall, args, peer>>

\* one iteration of `for _, arg := range args` in parse()
Consume ==
    /\ pc = "loop"
    /\ peer.pc # "exited"
    /\ pos < Len(Tail(args))
    /\ \E o \in {consume(tree, apOf, Tail(args)[pos + 1])} :
           /\ commandStack' = o.ap.commandStack
           /\ semanticStack' = o.ap.semanticStack
           /\ results' = o.ap.results
           /\ allowSubcommands' = o.ap.allowSubcommands
           /\ calls' = o.ap.calls
           /\ validated' = o.ap.validated
           /\ pos' = pos + 1
           /\ IF o.exit
              THEN pc' = "exited" /\ ret' = ret
              ELSE IF o.err.kind # "nil"
              THEN pc' = "done" /\ ret' = [res |-> 0, err |-> o.err]
              ELSE pc' = "loop" /\ ret' = ret
    /\ UNCHANGED <<tree, ncalls, lastCall, args, peer>>

\* the rest of parse() once the loop is over
Finish ==
    /\ pc = "loop"
    /\ peer.pc # "exited"
    /\ pos = Len(Tail(args))
    /\ IF missingSubcommand(tree, apOf)
       THEN /\ ret' = [res |-> 0,
                       err |-> Error("requiresSubcommand",
                                     tree.commands[currCommand(apOf)].Name)]
            /\ results' = results
       ELSE /\ results' = fillDefaults(tree, apOf, Len(commandStack)).results
            /\ ret' = [res |-> 1, err |-> NoError]
    /\ pc' = "done"
    /\ UNCHANGED <<tree, ncalls, lastCall, args, pos, commandStack, semanticStack,
                   allowSubcommands, calls, validated, peer>>

\* the zero value of argParser, before parse() has set it up
IdleParser ==
    [commandStack |-> <<>>, semanticStack |-> <<>>, results |-> <<>>,
     allowSubcommands |-> FALSE, calls |-> <<>>, validated |-> <<>>]

\* the second call before it is made
NoPeer == [pc |-> "idle", args |-> <<>>, pos |-> 0, ap |-> IdleParser,
           ret |-> NoReturn, startedAt |-> [pc |-> "idle", pos |-> 0]]

ParserIdle ==
    /\ pos = 0
    /\ pc = "idle"
    /\ commandStack = <<>>
    /\ semanticStack = <<>>
    /\ results = <<>>
    /\ allowSubcommands = FALSE
    /\ calls = <<>>
    /\ validated = <<>>
    /\ ret = NoReturn
    /\ peer = NoPeer

----------------------------------------------------------------------------
(* A second ParseArgs call on the same tree.  `ap := &argParser{...}` gives *)
(* every call an argParser of its own; os.Exit in the help action ends the *)
(* process, and with it every call that is still running.  startedAt       *)
(* remembers where the first call stood when the second was made.          *)

mainVars == <<tree, ncalls, lastCall, args, pos, pc, commandStack, semanticStack,
              results, allowSubcommands, calls, validated, ret>>

\* an argParser whose latch is the one of the first call
peerParser_SharedLatch == [peer.ap EXCEPT !.allowSubcommands = allowSubcommands]

\* the argParser of the second call
peerParser == peer.ap

\* the second call without `args[1:]`
peerToks_Untrimmed == peer.args

\* `ap.parse(args[1:])`: the tokens the second call parses
peerToks == Tail(peer.args)

PeerParseArgsOf(a) ==
    /\ peer.pc = "idle"
    /\ pc # "exited"
    /\ ~tree.fatal
    /\ Len(a) >= 1
    /\ peer' = [pc |-> "loop", args |-> a, pos |-> 0, ap |-> NewParser,
                ret |-> NoReturn, startedAt |-> [pc |-> pc, pos |-> pos]]
    /\ UNCHANGED mainVars

\* one iteration of `for _, arg := range args` in the second call
PeerConsume ==
    /\ peer.pc = "loop"
    /\ pc # "exited"
    /\ peer.pos < Len(peerToks)
    /\ \E o \in {consume(tree, peerParser, peerToks[peer.pos + 1])} :
           peer' = [peer EXCEPT
                      !.ap  = o.ap,
                      !.pos = @ + 1,
                      !.pc  = IF o.exit THEN "exited"
                              ELSE IF o.err.kind # "nil" THEN "done" ELSE "loop",
                      !.ret = IF ~o.exit /\ o.err.kind # "nil"
                              THEN [res |-> 0, err |-> o.err] ELSE @]
    /\ UNCHANGED mainVars

\* the rest of parse() in the second call
PeerFinish ==
    /\ peer.pc = "loop"
    /\ pc # "exited"
    /\ peer.pos = Len(peerToks)
    /\ peer' = IF missingSubcommand(tree, peerParser)
               THEN [peer EXCEPT
                       !.pc  = "done",
                       !.ret = [res |-> 0,
                                err |-> Error("requiresSubcommand",
                                    tree.commands[currCommand(peerParser)].Name)]]
               ELSE [peer EXCEPT
                       !.pc  = "done",
                       !.ap.results = fillDefaults(tree, peerParser,
                                          Len(peerParser.commandStack)).results,
                       !.ret = [res |-> 1, err |-> NoError]]
    /\ UNCHANGED mainVars

----------------------------------------------------------------------------
(* Command trees and token lists the parser is run on.  Every tree is the  *)
(* result of builder calls, as in the test suite.                          *)

Olive == <<"o">>

Call(op, c, name, shortName) ==
    [op |-> op, c |-> c, name |-> name, shortName |-> shortName]

DefaultOptions == {"none", "zero", "nonzero"}

withDefault(t, a, opt, zero, nonzero) ==
    IF opt = "none" THEN t
    ELSE SetDefaultValue(t, a, IF opt = "zero" THEN zero ELSE nonzero)

\* flags and arguments on the root command (TestCorrectFlagsandArgs,
\* TestValidatorsandDefaults): flag fl/f with an action, integer in/i that
\* must be even, string fl/f without validator that shares both names with
\* the flag
ArgsCLI(opt) ==
    LET t0 == NewCLI(Olive, FALSE)
        t1 == SetAction(AddFlag(t0, 1, <<"f", "l">>, <<"f">>, "nil"), 1, "user")
        t2 == SetValidator(AddIntArg(t1, 1, <<"i", "n">>, <<"i">>, FALSE),
                           1, "even")
        t3 == withDefault(t2, 1, opt, IntValue(0), IntValue(2))
        t4 == AddStringArg(t3, 1, <<"f", "l">>, <<"f">>, TRUE)
    IN  withDefault(t4, 2, opt, StringValue(EmptyStr), StringValue(<<"a", "b">>))

ArgsTokens ==
    { <<"-", "-", "f", "l">>, <<"-", "f">>,
      <<"-", "-", "i", "n", "=", "2">>, <<"-", "i", "=", "4">>,
      <<"-", "i", "=", "5">>, <<"-", "-", "i", "n", "=", "x">>,
      <<"-", "-", "f", "l", "=", "a", "b">>, <<"-", "f", "=", "c">>,
      <<"-", "f", "=">> }

\* the other kinds (TestValidatorsandDefaults, TestBadInput2): float fo/f that
\* must round down, selector se/e over {v1, v2, bad} that refuses bad,
\* string sr/r of at most ShortLimit characters
TypesCLI(opt) ==
    LET t0 == NewCLI(Olive, FALSE)
        t1 == SetValidator(AddFloatArg(t0, 1, <<"f", "o">>, <<"f">>, FALSE),
                           1, "roundsDown")
        t2 == withDefault(t1, 1, opt, FloatValue(0, 0), FloatValue(2, -1))
        t3 == SetValidator(
                  AddSelectorArg(t2, 1, <<"s", "e">>, <<"e">>, FALSE,
                                 {<<"v", "1">>, <<"v", "2">>, BadVal}),
                  2, "notBadVal")
        t4 == withDefault(t3, 2, opt, StringValue(<<"v", "1">>),
                          StringValue(<<"v", "2">>))
        t5 == SetValidator(AddStringArg(t4, 1, <<"s", "r">>, <<"r">>, FALSE),
                           3, "short")
    IN  withDefault(t5, 3, opt, StringValue(EmptyStr), StringValue(<<"a", "b">>))

TypesTokens ==
    { <<"-", "f", "=", "0", ".", "3">>, <<"-", "-", "f", "o", "=", "0", ".", "3", "0">>,
      <<"-", "f", "=", "0", ".", "8">>, <<"-", "f", "=", "x">>,
      <<"-", "-", "s", "e", "=", "v", "1">>, <<"-", "e", "=", "v", "2">>,
      <<"-", "e", "=", "v", "3">>, <<"-", "e", "=", "b", "a", "d">>,
      <<"-", "r", "=", "a", "b", "c", "d", "e", "f">>,
      <<"-", "-", "s", "r", "=", "a", "b">> }

\* subcommands (TestCorrectMixedCLI, TestOptionalSubcommand): the root has
\* help, flag vb/v and string ou/u with a default; bu takes a primary argument and has its
\* own flag vb/v and its own string ou/u with a default; mo has integer in/i
\* and the children it (primary argument, its own flag vb/v) and up (flag
\* dr/d, which no other command declares).  The flags carry an action, as
\* in TestCorrectFlags, but for the one of it
SubsCLI(rootRequires, moRequires) ==
    LET t0  == SetRequiresSubcommand(NewCLI(Olive, TRUE), 1, rootRequires)
        t1  == AddFlag(t0, 1, <<"v", "b">>, <<"v">>, "user")
        t2  == AddSubcommand(t1, 1, <<"b", "u">>, FALSE)
        t3  == AddPrimaryArg(t2, 2, <<"p", "n">>, FALSE)
        t4  == AddStringArg(t3, 2, <<"o", "u">>, <<"u">>, TRUE)
        t5  == SetDefaultValue(t4, 1, StringValue(<<"c", "p">>))
        t6  == AddSubcommand(t5, 1, <<"m", "o">>, FALSE)
        t7  == SetRequiresSubcommand(t6, 3, moRequires)
        t8  == AddIntArg(t7, 3, <<"i", "n">>, <<"i">>, TRUE)
        t9  == AddSubcommand(t8, 3, <<"i", "t">>, FALSE)
        t10 == AddPrimaryArg(t9, 4, <<"m", "n">>, FALSE)
        t11 == AddFlag(t10, 4, <<"v", "b">>, <<"v">>, "nil")
        t12 == AddSubcommand(t11, 3, <<"u", "p">>, FALSE)
        t13 == SetDefaultValue(AddStringArg(t12, 1, <<"o", "u">>, <<"u">>, FALSE),
                               3, StringValue(<<"r", "p">>))
        t14 == AddFlag(t13, 2, <<"v", "b">>, <<"v">>, "user")
    IN  AddFlag(t14, 5, <<"d", "r">>, <<"d">>, "user")

SubsTokens ==
    { <<"b", "u">>, <<"m", "o">>, <<"i", "t">>, <<"u", "p">>, <<"p", "k">>,
      <<"-", "-", "v", "b">>, <<"-", "v">>, <<"-", "h">>,
      <<"-", "u", "=", "a", "b">>, <<"-", "-", "i", "n", "=", "2">>,
      EmptyStr }

\* tokens that name what another branch of the tree declares (TestBadInput)
ScopeTokens ==
    { <<"b", "u">>, <<"m", "o">>, <<"u", "p">>,
      <<"-", "-", "d", "r">>, <<"-", "d">>, <<"-", "-", "i", "n", "=", "2">> }

Fixtures ==
    {[tree |-> ArgsCLI(opt), tokens |-> ArgsTokens] : opt \in DefaultOptions}
    \cup {[tree |-> TypesCLI(opt), tokens |-> TypesTokens] : opt \in DefaultOptions}
    \cup {[tree |-> SubsCLI(r, m), tokens |-> SubsTokens] : r, m \in BOOLEAN}
    \cup {[tree |-> SubsCLI(r, m), tokens |-> ScopeTokens] : r, m \in BOOLEAN}

\* all token lists of at most MaxArgs tokens after the program name
ArgLists(tokens) ==
    UNION {{<<Olive>> \o l : l \in [1..n -> tokens]} : n \in 0..MaxArgs}

Init ==
    /\ \E fx \in Fixtures :
          /\ tree = fx.tree
          /\ args \in ArgLists(fx.tokens)
    /\ ncalls = 0
    /\ lastCall = Call("NewCLI", 1, Olive, EmptyStr)
    /\ ParserIdle

Next == ParseArgs \/ Consume \/ Finish

Spec == Init /\ [][Next]_vars

----------------------------------------------------------------------------
(* State machine of the builder: the calls a program makes on its CLI      *)
(* before it parses.  A fatal configuration error ends the process.        *)

FlagNames == {HelpName, <<"f", "l">>}

FlagShortNames == {HelpShort, <<"f">>}

ArgNames == {HelpName, <<"a", "a">>}

ArgShortNames == {<<"a">>, <<"b">>}

SubcommandNames == {<<"s", "u">>}

SelectorValues == {<<"v", "1">>, BadVal}

ArgKinds == {"int", "float", "string", "selector"}

\* the validator a caller installs on an argument of the kind
ValidatorOf(kind) ==
    CASE kind = "int" -> "even"
      [] kind = "float" -> "roundsDown"
      [] kind = "string" -> "short"
      [] kind = "selector" -> "notBadVal"

\* the values a caller passes to SetDefaultValue of the kind
DefaultsOf(kind) ==
    CASE kind = "int" -> {IntValue(0), IntValue(1), IntValue(2)}
      [] kind = "float" -> {FloatValue(0, 0), FloatValue(2, -1), FloatValue(6, -1)}
      [] kind = "string" ->
            {StringValue(EmptyStr), StringValue(<<"a", "b">>),
             StringValue(<<"a", "b", "c", "d", "e", "f">>)}
      [] kind = "selector" ->
            {StringValue(<<"v", "1">>), StringValue(BadVal),
             StringValue(<<"v", "3">>)}

Commands == 1..Len(tree.commands)

CanBuild ==
    /\ pc = "idle"
    /\ ~tree.fatal
    /\ ncalls < MaxCalls

Built(call, t) ==
    /\ tree' = t
    /\ ncalls' = ncalls + 1
    /\ lastCall' = call
    /\ UNCHANGED parserVars

DoAddSubcommand ==
    /\ CanBuild
    /\ \E c \in Commands, name \in SubcommandNames, helpEnabled \in BOOLEAN :
          Built(Call("AddSubcommand", c, name, EmptyStr),
                AddSubcommand(tree, c, name, helpEnabled))

DoAddPrimaryArg ==
    /\ CanBuild
    /\ \E c \in Commands, required \in BOOLEAN :
          Built(Call("AddPrimaryArg", c, <<"p">>, EmptyStr),
                AddPrimaryArg(tree, c, <<"p">>, required))

DoAddFlag ==
    /\ CanBuild
    /\ \E c \in Commands, name \in FlagNames, shortName \in FlagShortNames :
          Built(Call("AddFlag", c, name, shortName),
                AddFlag(tree, c, name, shortName, "nil"))

DoSetAction ==
    /\ CanBuild
    /\ \E f \in 1..Len(tree.flagObjs) :
          Built(Call("SetAction", f, EmptyStr, EmptyStr),
                SetAction(tree, f, "user"))

DoAddArg ==
    /\ CanBuild
    /\ \E c \in Commands, kind \in ArgKinds, name \in ArgNames,
          shortName \in ArgShortNames :
          Built(Call("AddArg", c, name, shortName),
                CASE kind = "int" -> AddIntArg(tree, c, name, shortName, FALSE)
                  [] kind = "float" -> AddFloatArg(tree, c, name, shortName, FALSE)
                  [] kind = "string" -> AddStringArg(tree, c, name, shortName, FALSE)
                  [] kind = "selector" ->
                        AddSelectorArg(tree, c, name, shortName, FALSE,
                                       SelectorValues))

DoSetValidator ==
    /\ CanBuild
    /\ \E a \in 1..Len(tree.argObjs) :
          Built(Call("SetValidator", a, EmptyStr, EmptyStr),
                SetValidator(tree, a, ValidatorOf(tree.argObjs[a].kind)))

DoSetDefaultValue ==
    /\ CanBuild
    /\ \E a \in 1..Len(tree.argObjs) :
          \E v \in DefaultsOf(tree.argObjs[a].kind) :
             Built(Call("SetDefaultValue", a, EmptyStr, EmptyStr),
                   SetDefaultValue(tree, a, v))

DoEnableHelp ==
    /\ CanBuild
    /\ \E c \in Commands :
          Built(Call("EnableHelp", c, EmptyStr, EmptyStr), EnableHelp(tree, c))

DoDisableHelp ==
    /\ CanBuild
    /\ \E c \in Commands :
          Built(Call("DisableHelp", c, EmptyStr, EmptyStr), DisableHelp(tree, c))

DoSetRequiresSubcommand ==
    /\ CanBuild
    /\ \E c \in Commands, b \in BOOLEAN :
          Built(Call("SetRequiresSubcommand", c, EmptyStr, EmptyStr),
                SetRequiresSubcommand(tree, c, b))

\* the call NewCLI(name, "", helpEnabled)
NewCall(helpEnabled) ==
    [op |-> "NewCLI", c |-> 1, name |-> Olive, shortName |-> EmptyStr,
     helpEnabled |-> helpEnabled]

InitBuild ==
    /\ \E helpEnabled \in BOOLEAN :
          /\ tree = NewCLI(Olive, helpEnabled)
          /\ lastCall = NewCall(helpEnabled)
    /\ args = <<Olive>>
    /\ ncalls = 0
    /\ ParserIdle

NextBuild ==
    \/ DoAddSubcommand
    \/ DoAddPrimaryArg
    \/ DoAddFlag
    \/ DoSetAction
    \/ DoAddArg
    \/ DoSetValidator
    \/ DoSetDefaultValue
    \/ DoEnableHelp
    \/ DoDisableHelp
    \/ DoSetRequiresSubcommand

SpecBuild == InitBuild /\ [][NextBuild]_vars

----------------------------------------------------------------------------
(* A program that configures the flags, the arguments and the help flag of *)
(* its root command and then parses a command line that asks for help      *)
(* (TestHelp).                                                             *)

HelpTokens == {LongFlag(HelpName), ShortFlag(HelpShort)}

DoParseArgs ==
    \E tok \in HelpTokens : ParseArgsOf(<<Olive, tok>>)

NextHelp ==
    \/ DoAddFlag
    \/ DoAddArg
    \/ DoEnableHelp
    \/ DoDisableHelp
    \/ DoParseArgs
    \/ Consume
    \/ Finish

SpecHelp == InitBuild /\ [][NextHelp]_vars

----------------------------------------------------------------------------
(* Properties of the builder, checked under SpecBuild *)

HasPrimaryArg(c) == tree.commands[c].primaryArg # <<>>

HasSubcommands(c) == DOMAIN tree.commands[c].subcommands # {}

\* the Flag objects a command can still reach, by name or by short name
FlagsOf(c) ==
    Range(tree.commands[c].flags) \cup Range(tree.commands[c].flagsByShortName)

\* the Argument objects a command can reach, by name or by short name
ArgsOf(c) ==
    Range(tree.commands[c].args) \cup Range(tree.commands[c].argsByShortName)

\* C5: no command ever has both a primary argument and subcommands;
\* AddSubcommand on a command with a primary argument and AddPrimaryArg on a
\* command with subcommands end in a fatal configuration error.
C5_PrimaryArgExcludesSubcommands ==
    /\ \A c \in Commands : ~(HasPrimaryArg(c) /\ HasSubcommands(c))
    /\ (lastCall.op = "AddSubcommand" /\ HasPrimaryArg(lastCall.c)) => tree.fatal
    /\ (lastCall.op = "AddPrimaryArg" /\ HasSubcommands(lastCall.c)) => tree.fatal

\* AddSubcommand was refused on a subcommand that took a primary argument
C5_Witness ==
    /\ tree.fatal
    /\ lastCall.op = "AddSubcommand"
    /\ lastCall.c > 1
    /\ HasPrimaryArg(lastCall.c)

\* C6: within one command no two flags share a full name and no two share a
\* short name; an AddFlag that was not refused added a flag whose name and
\* short name no other flag of the command has.
C6_FlagNamesUnique ==
    \A c \in Commands : \A f1, f2 \in FlagsOf(c) :
        f1 # f2 => /\ tree.flagObjs[f1].name # tree.flagObjs[f2].name
                   /\ tree.flagObjs[f1].shortName # tree.flagObjs[f2].shortName

C7_Unique ==
    \A c \in Commands : \A a1, a2 \in ArgsOf(c) :
        a1 # a2 => /\ tree.argObjs[a1].name # tree.argObjs[a2].name
                   /\ tree.argObjs[a1].shortName # tree.argObjs[a2].shortName

C7_Refused ==
    (/\ lastCall'.op = "AddArg"
     /\ ncalls' = ncalls + 1
     /\ \/ lastCall'.name \in DOMAIN tree.commands[lastCall'.c].args
        \/ lastCall'.shortName \in DOMAIN tree.commands[lastCall'.c].argsByShortName)
    => tree'.fatal

\* C7: within one command no two named arguments, of whatever kinds, share a
\* full name or a short name, and every Add*Arg call whose name or short
\* name is already registered on the command ends in a fatal error.
C7_ArgNamesUnique == []C7_Unique /\ [][C7_Refused]_vars

\* an argument of another kind was refused for its short name alone
C7_Witness ==
    /\ tree.fatal
    /\ lastCall.op = "AddArg"
    /\ lastCall.name \notin DOMAIN tree.commands[lastCall.c].args
    /\ lastCall.shortName \in DOMAIN tree.commands[lastCall.c].argsByShortName

\* C8: every default value passes the validator of its argument and, for a
\* selector, is one of the legal values, in whatever order SetValidator and
\* SetDefaultValue were called.
C8_DefaultsPassValidator ==
    \A a \in 1..Len(tree.argObjs) :
        LET arg == tree.argObjs[a]
        IN  GetDefaultValue(arg).ok =>
               /\ validator(arg.validator, arg.defaultValue.val)
               /\ arg.kind = "selector" =>
                      arg.defaultValue.val \in arg.possibleValues

----------------------------------------------------------------------------
(* Reading a token list against a tree, as the documentation describes it *)

Toks == Tail(args)

LongArg(name, value) == <<"-", "-">> \o name \o <<"=">> \o value

ShortArg(shortName, value) == <<"-">> \o shortName \o <<"=">> \o value

Suffixes(tok) == {SubSeq(tok, j, Len(tok)) : j \in 2..Len(tok)}

IsBare(tok) == Len(tok) > 0 /\ tok[1] # "-"

\* the commands entered by the leading subcommand names of a token list
RECURSIVE ChainOf(_, _)
ChainOf(c, toks) ==
    IF /\ Len(toks) > 0
       /\ IsBare(toks[1])
       /\ toks[1] \in DOMAIN tree.commands[c].subcommands
    THEN <<c>> \o ChainOf(tree.commands[c].subcommands[toks[1]], Tail(toks))
    ELSE <<c>>

\* level k of the stack is the innermost one whose map `field` has the name
Innermost(stack, k, field, name) ==
    /\ k \in 1..Len(stack)
    /\ name \in DOMAIN tree.commands[stack[k]][field]
    /\ \A j \in (k + 1)..Len(stack) :
          name \notin DOMAIN tree.commands[stack[j]][field]

\* the token is --name or -short of flag f, declared at level k of the stack
SetsFlag(stack, tok, k, f) ==
    \/ /\ tok = LongFlag(tree.flagObjs[f].name)
       /\ Innermost(stack, k, "flags", tree.flagObjs[f].name)
       /\ tree.commands[stack[k]].flags[tree.flagObjs[f].name] = f
    \/ /\ tok = ShortFlag(tree.flagObjs[f].shortName)
       /\ Innermost(stack, k, "flagsByShortName", tree.flagObjs[f].shortName)
       /\ tree.commands[stack[k]].flagsByShortName[tree.flagObjs[f].shortName] = f

\* the token is --name=v or -short=v, v not empty, of argument a declared at
\* level k of the stack
SetsArg(stack, tok, k, a, v) ==
    /\ v # EmptyStr
    /\ \/ /\ tok = LongArg(tree.argObjs[a].name, v)
          /\ Innermost(stack, k, "args", tree.argObjs[a].name)
          /\ tree.commands[stack[k]].args[tree.argObjs[a].name] = a
       \/ /\ tok = ShortArg(tree.argObjs[a].shortName, v)
          /\ Innermost(stack, k, "argsByShortName", tree.argObjs[a].shortName)
          /\ tree.commands[stack[k]].argsByShortName[tree.argObjs[a].shortName] = a

FlagIds == 1..Len(tree.flagObjs)

ArgIds == 1..Len(tree.argObjs)

IsFlagToken(stack, tok) ==
    \E k \in 1..Len(stack), f \in FlagIds : SetsFlag(stack, tok, k, f)

IsArgToken(stack, tok) ==
    \E k \in 1..Len(stack), a \in ArgIds, v \in Suffixes(tok) :
        SetsArg(stack, tok, k, a, v)

\* the Result of level k, reached from the root Result as a caller does
RECURSIVE ScopeResult(_, _)
ScopeResult(r, k) ==
    IF k = 1 THEN results[r]
    ELSE ScopeResult(results[r].subcommandRes, k - 1)

Returned == pc = "done"

Succeeded == pc = "done" /\ ret.err.kind = "nil" /\ ret.res = 1

----------------------------------------------------------------------------
(* Properties of ParseArgs, checked under Spec *)

Chain == ChainOf(1, Toks)

\* the tokens after the subcommand names
Rest == (Len(Chain))..Len(Toks)

SameFlag(stack, t1, t2) ==
    \E k \in 1..Len(stack), f \in FlagIds :
        SetsFlag(stack, t1, k, f) /\ SetsFlag(stack, t2, k, f)

SameArg(stack, t1, t2) ==
    \E k \in 1..Len(stack), a \in ArgIds :
        /\ \E v \in Suffixes(t1) : SetsArg(stack, t1, k, a, v)
        /\ \E v \in Suffixes(t2) : SetsArg(stack, t2, k, a, v)

\* the value of every argument token is one its kind and validator accept
ValuesAccepted(stack, tok) ==
    \A k \in 1..Len(stack), a \in ArgIds, v \in Suffixes(tok) :
        SetsArg(stack, tok, k, a, v) =>
            /\ tree.argObjs[a].kind = "int" =>
                  ParseInt(v).ok /\ validator(tree.argObjs[a].validator, ParseInt(v).n)
            /\ tree.argObjs[a].kind = "float" =>
                  ParseFloat(v).ok
                  /\ validator(tree.argObjs[a].validator, ParseFloat(v).v)
            /\ tree.argObjs[a].kind = "string" =>
                  validator(tree.argObjs[a].validator, v)
            /\ tree.argObjs[a].kind = "selector" =>
                  v \in tree.argObjs[a].possibleValues
                  /\ validator(tree.argObjs[a].validator, v)

\* subcommand names first, then declared flags and arguments, each at most
\* once, each value not empty and accepted
LegalTokens ==
    /\ \A i \in Rest :
          /\ IsFlagToken(Chain, Toks[i]) \/ IsArgToken(Chain, Toks[i])
          /\ ValuesAccepted(Chain, Toks[i])
    /\ \A i, j \in Rest :
          i < j => /\ ~SameFlag(Chain, Toks[i], Toks[j])
                   /\ ~SameArg(Chain, Toks[i], Toks[j])

\* the last command entered can do without a (further) subcommand
ChainComplete ==
    LET last == Chain[Len(Chain)]
    IN  ~(HasSubcommands(last) /\ tree.commands[last].RequiresSubcommand)

ArgIsSet(k, a) ==
    \E i \in Rest : \E v \in Suffixes(Toks[i]) : SetsArg(Chain, Toks[i], k, a, v)

TypedValue(a, v) ==
    CASE tree.argObjs[a].kind = "int" -> IntValue(ParseInt(v).n)
      [] tree.argObjs[a].kind = "float" ->
            FloatValue(ParseFloat(v).v[1], ParseFloat(v).v[2])
      [] OTHER -> StringValue(v)

\* ParseArgs succeeded, set flags are present in their scope, set arguments
\* hold their typed value, unset arguments with a default hold the default
GoodResult ==
    /\ Succeeded
    /\ \A i \in Rest, k \in 1..Len(Chain) :
          /\ \A f \in FlagIds :
                SetsFlag(Chain, Toks[i], k, f) =>
                    tree.flagObjs[f].name \in ScopeResult(ret.res, k).flags
          /\ \A a \in ArgIds, v \in Suffixes(Toks[i]) :
                SetsArg(Chain, Toks[i], k, a, v) =>
                    /\ tree.argObjs[a].name
                           \in DOMAIN ScopeResult(ret.res, k).Arguments
                    /\ ScopeResult(ret.res, k).Arguments[tree.argObjs[a].name]
                           = TypedValue(a, v)
    /\ \A k \in 1..Len(Chain) :
          \A a \in Range(tree.commands[Chain[k]].args) :
             (tree.argObjs[a].defaultValue.typ # "nil" /\ ~ArgIsSet(k, a)) =>
                 /\ tree.argObjs[a].name
                        \in DOMAIN ScopeResult(ret.res, k).Arguments
                 /\ ScopeResult(ret.res, k).Arguments[tree.argObjs[a].name]
                        = tree.argObjs[a].defaultValue

\* C1 as stated: whenever ParseArgs returns on a token list of declared
\* flags, arguments and subcommands in legal order, it has succeeded and the
\* Result holds the set flags, the parsed values and the defaults.
C1_LegalTokensSucceed == (Returned /\ LegalTokens) => GoodResult

\* C1 amended: the same for token lists whose subcommand names end at a
\* command that has no subcommands or does not require one.
C1_CompleteLegalTokensSucceed ==
    (Returned /\ LegalTokens /\ ChainComplete) => GoodResult

\* a subcommand, then one of its arguments and a flag of the root
C1_Witness ==
    /\ Succeeded
    /\ LegalTokens
    /\ ChainComplete
    /\ Len(Chain) = 2
    /\ \E i \in Rest : IsFlagToken(Chain, Toks[i])
    /\ \E i \in Rest : IsArgToken(Chain, Toks[i])

\* C2: once two consumed tokens name the same flag of the same scope, in
\* long or short form, ParseArgs has failed at the second one with "flag set
\* multiple times"; a flag set by a token is recorded under its full name.
C2_DuplicateFlagFails ==
    /\ \A i, j \in 1..pos :
          (i < j /\ SameFlag(commandStack, Toks[i], Toks[j])) =>
              /\ pc = "done"
              /\ pos = j
              /\ ret.res = 0
              /\ ret.err.kind = "flagMulti"
              /\ \E k \in 1..Len(commandStack), f \in FlagIds :
                    /\ SetsFlag(commandStack, Toks[j], k, f)
                    /\ ret.err.name = tree.flagObjs[f].name
    /\ \A i \in 1..pos, k \in 1..Len(commandStack), f \in FlagIds :
          (/\ SetsFlag(commandStack, Toks[i], k, f)
           /\ \/ i < pos
              \/ pc = "loop"
              \/ ret.err.kind \in {"nil", "requiresSubcommand"}) =>
              tree.flagObjs[f].name \in ScopeResult(1, k).flags

\* the short form after the long form of one flag
C2_Witness ==
    /\ pc = "done"
    /\ ret.err.kind = "flagMulti"
    /\ pos >= 2
    /\ \E f \in FlagIds :
          /\ Toks[pos] = ShortFlag(tree.flagObjs[f].shortName)
          /\ \E i \in 1..(pos - 1) : Toks[i] = LongFlag(tree.flagObjs[f].name)

\* C3: once two consumed tokens give a value to the same argument of the
\* same scope, in long or short form, ParseArgs has failed at the second one
\* with "argument set multiple times", whatever the values are.
C3_DuplicateArgFails ==
    \A i, j \in 1..pos :
        (i < j /\ SameArg(commandStack, Toks[i], Toks[j])) =>
            /\ pc = "done"
            /\ pos = j
            /\ ret.res = 0
            /\ ret.err.kind = "argMulti"
            /\ \E k \in 1..Len(commandStack), a \in ArgIds :
                  /\ \E v \in Suffixes(Toks[j]) :
                        SetsArg(commandStack, Toks[j], k, a, v)
                  /\ ret.err.name = tree.argObjs[a].name

\* the second value is one the argument would refuse
C3_Witness ==
    /\ pc = "done"
    /\ ret.err.kind = "argMulti"
    /\ ~ValuesAccepted(commandStack, Toks[pos])

\* C4: when no token was refused, ParseArgs fails with "requires a
\* subcommand" exactly if the innermost command of the final stack has
\* subcommands and RequiresSubcommand; otherwise it succeeds and each Result
\* of the chain gives the name and the Result of the subcommand chosen.
C4_RequiresSubcommand ==
    (Returned /\ ret.err.kind \in {"nil", "requiresSubcommand"}) =>
        LET n    == Len(commandStack)
            last == commandStack[n]
        IN  /\ pos = Len(Toks)
            /\ ret.err.kind = "requiresSubcommand"
                  <=> (HasSubcommands(last) /\ tree.commands[last].RequiresSubcommand)
            /\ ret.err.kind = "requiresSubcommand" => ret.res = 0
            /\ ret.err.kind = "nil" =>
                  /\ ret.res = 1
                  /\ commandStack = Chain
                  /\ \A k \in 1..(n - 1) :
                        /\ ScopeResult(ret.res, k).subcommandName = Toks[k]
                        /\ ScopeResult(ret.res, k).subcommandRes # 0
                  /\ ScopeResult(ret.res, n).subcommandRes = 0

\* a subcommand was entered that itself requires one
C4_Witness ==
    /\ Returned
    /\ ret.err.kind = "requiresSubcommand"
    /\ Len(commandStack) = 2
    /\ pos = Len(Toks)

\* a command with subcommands but RequiresSubcommand false was the last one
C4_WitnessOptional ==
    /\ Succeeded
    /\ Len(commandStack) = 2
    /\ HasSubcommands(commandStack[2])

\* the tokens before token i gave no value to argument a of level k
Unset(i, k, a) ==
    \A j \in 1..(i - 1) : \A w \in Suffixes(Toks[j]) :
        ~SetsArg(commandStack, Toks[j], k, a, w)

\* C9: when a consumed token gives an argument that has no value yet a raw
\* value its kind or its validator refuses, ParseArgs has failed at that
\* token with that error and the argument has no value in the Result.
C9_RejectedValueFails ==
    \A i \in 1..pos, k \in 1..Len(commandStack), a \in ArgIds :
        \A v \in Suffixes(Toks[i]) :
            (/\ SetsArg(commandStack, Toks[i], k, a, v)
             /\ Unset(i, k, a)
             /\ ~ValuesAccepted(commandStack, Toks[i])) =>
                /\ pc = "done"
                /\ pos = i
                /\ ret.res = 0
                /\ ret.err.kind \in {"syntax", "notValid", "validator"}
                /\ ret.err.kind = "validator" <=>
                      /\ tree.argObjs[a].kind = "int" => ParseInt(v).ok
                      /\ tree.argObjs[a].kind = "float" => ParseFloat(v).ok
                      /\ tree.argObjs[a].kind = "selector" =>
                            v \in tree.argObjs[a].possibleValues
                /\ ret.err.kind = "syntax" =>
                      tree.argObjs[a].kind \in {"int", "float"}
                /\ ret.err.kind = "notValid" => tree.argObjs[a].kind = "selector"
                /\ tree.argObjs[a].name \notin DOMAIN ScopeResult(1, k).Arguments

\* a validator refused a value after another argument had been accepted
C9_Witness ==
    /\ pc = "done"
    /\ ret.err.kind = "validator"
    /\ pos = 2
    /\ IsArgToken(commandStack, Toks[1])
    /\ ~SameArg(commandStack, Toks[1], Toks[2])

ZeroValues == {IntValue(0), FloatValue(0, 0), StringValue(EmptyStr)}

\* C10: after a successful parse every argument of a command on the stack
\* whose default is the zero value of its kind and that no token set holds
\* that zero value in the Result of its scope.
C10_ZeroDefaultIsPresent ==
    Succeeded =>
        \A k \in 1..Len(commandStack) :
            \A a \in Range(tree.commands[commandStack[k]].args) :
                (tree.argObjs[a].defaultValue \in ZeroValues /\ Unset(pos + 1, k, a)) =>
                    /\ tree.argObjs[a].name \in DOMAIN ScopeResult(ret.res, k).Arguments
                    /\ ScopeResult(ret.res, k).Arguments[tree.argObjs[a].name]
                           = tree.argObjs[a].defaultValue

\* integer, float and string defaults 0, 0.0 and "" were all filled in
C10_Witness ==
    /\ Succeeded
    /\ \E t \in ZeroValues : t.typ = "int" /\ t \in Range(results[1].Arguments)
    /\ tree = ArgsCLI("zero")
    /\ StringValue(EmptyStr) \in Range(results[1].Arguments)
    /\ \A i \in 1..pos : ~IsArgToken(commandStack, Toks[i])

TypOf(kind) ==
    CASE kind = "int" -> "int"
      [] kind = "float" -> "float64"
      [] OTHER -> "string"

\* every validator call was made on a value of the argument's type, and for
\* a selector on one of its legal values; a token that gives a selector a
\* value outside the legal set has failed with the unknown-value error
C11_Checked ==
    /\ \A j \in 1..Len(validated) :
          LET arg == validated[j].arg
          IN  /\ arg \in Range(tree.argObjs)
              /\ arg.validator # "nil"
              /\ validated[j].val.typ = TypOf(arg.kind)
              /\ arg.kind = "selector" =>
                    validated[j].val.val \in arg.possibleValues
    /\ \A i \in 1..pos, k \in 1..Len(commandStack), a \in ArgIds :
          \A v \in Suffixes(Toks[i]) :
             (/\ SetsArg(commandStack, Toks[i], k, a, v)
              /\ Unset(i, k, a)
              /\ tree.argObjs[a].kind = "selector"
              /\ v \notin tree.argObjs[a].possibleValues) =>
                 /\ pc = "done"
                 /\ pos = i
                 /\ ret = [res |-> 0, err |-> Error("notValid", v)]

\* a token refused by the syntactic check of its kind calls no validator
C11_NotCalled ==
    (pc' = "done" /\ ret'.err.kind \in {"syntax", "notValid"}) =>
        validated' = validated

\* C11: a selector value outside the legal set fails with the unknown-value
\* error and the validator is never called on it; validators are called only
\* on values the syntactic check of the kind has accepted.
C11_ValidatorAfterSyntax == []C11_Checked /\ [][C11_NotCalled]_vars

\* a selector with a validator refused an unknown value after the validator
\* of an earlier argument had run
C11_Witness ==
    /\ pc = "done"
    /\ ret.err.kind = "notValid"
    /\ Len(validated) >= 1
    /\ \E a \in ArgIds :
          /\ tree.argObjs[a].kind = "selector"
          /\ tree.argObjs[a].validator # "nil"
          /\ \E v \in Suffixes(Toks[pos]) : SetsArg(commandStack, Toks[pos], 1, a, v)

IsDashed(tok) == HasPrefix(tok, <<Dash>>)

Top == commandStack[Len(commandStack)]

\* C12: once a dash-prefixed token has been consumed, a later token that is
\* not dash-prefixed, met while the innermost command has no primary
\* argument, makes ParseArgs fail with "unknown subcommand", also when the
\* word names a child of the innermost command.
C12_BareWordAfterDash ==
    \A i, j \in 1..pos :
        (/\ i < j
         /\ IsDashed(Toks[i])
         /\ ~IsDashed(Toks[j])
         /\ ~HasPrimaryArg(Top)) =>
            /\ pc = "done"
            /\ pos = j
            /\ ret = [res |-> 0, err |-> Error("unknownSubcommand", Toks[j])]

\* inside a subcommand, the word refused after a dash token names a child
C12_Witness ==
    /\ pc = "done"
    /\ ret.err.kind = "unknownSubcommand"
    /\ Len(commandStack) = 2
    /\ Toks[pos] \in DOMAIN tree.commands[Top].subcommands
    /\ \E i \in 1..(pos - 1) : IsDashed(Toks[i])

\* the token the loop of parse() is about to consume
NextTok == Toks[pos + 1]

Consuming == pc = "loop" /\ pos' = pos + 1

\* none of the tokens consumed so far names the flag / argument of NextTok
FirstFlagUse == \A j \in 1..pos : ~SameFlag(commandStack, Toks[j], NextTok)

FirstArgUse == \A j \in 1..pos : ~SameArg(commandStack, Toks[j], NextTok)

\* consuming the first token for a flag that only an ancestor (level k below
\* the top of the stack) declares records it in the ancestor's Result alone
C13_FlagStep ==
    Consuming =>
    \A k \in 1..(Len(commandStack) - 1), f \in FlagIds :
        (/\ SetsFlag(commandStack, NextTok, k, f)
         /\ FirstFlagUse) =>
            /\ pc' \in {"loop", "exited"}
            /\ commandStack' = commandStack
            /\ results' = [results EXCEPT ![semanticStack[k]].flags =
                                              @ \cup {tree.flagObjs[f].name}]

\* the same for a named argument given a value it accepts
C13_ArgStep ==
    Consuming =>
    \A k \in 1..(Len(commandStack) - 1), a \in ArgIds :
        \A v \in Suffixes(NextTok) :
            (/\ SetsArg(commandStack, NextTok, k, a, v)
             /\ FirstArgUse
             /\ ValuesAccepted(commandStack, NextTok)) =>
                /\ pc' = "loop"
                /\ commandStack' = commandStack
                /\ results' = [results EXCEPT ![semanticStack[k]].Arguments =
                                  MapPut(@, tree.argObjs[a].name, TypedValue(a, v))]

\* in the Result a caller gets, the flag is present in the ancestor's scope
\* and absent from every deeper scope
C13_Scoped ==
    Succeeded =>
        \A i \in 1..pos, k \in 1..(Len(commandStack) - 1), f \in FlagIds :
            SetsFlag(commandStack, Toks[i], k, f) =>
                /\ tree.flagObjs[f].name \in ScopeResult(ret.res, k).flags
                /\ \A d \in (k + 1)..Len(commandStack) :
                      tree.flagObjs[f].name \notin ScopeResult(ret.res, d).flags

\* C13: a flag or named argument that an ancestor declares and no deeper
\* command of the stack declares is accepted after subcommands were entered
\* and is recorded in the Result of that ancestor and in no other Result.
C13_AncestorScope ==
    []C13_Scoped /\ [][C13_FlagStep /\ C13_ArgStep]_vars

\* inside a subcommand, a flag that only the root declares was set and the
\* parse succeeded
C13_Witness ==
    /\ Succeeded
    /\ Len(commandStack) = 2
    /\ \E i \in 1..pos, f \in FlagIds :
          /\ SetsFlag(commandStack, Toks[i], 1, f)
          /\ tree.flagObjs[f].name \in ScopeResult(ret.res, 1).flags
          /\ tree.flagObjs[f].name \notin ScopeResult(ret.res, 2).flags

\* the name the token carries is declared at level k and also at some level
\* below it on the stack
FlagShadows(stack, tok, k, f) ==
    /\ SetsFlag(stack, tok, k, f)
    /\ \E k0 \in 1..(k - 1) :
          \/ /\ tok = LongFlag(tree.flagObjs[f].name)
             /\ tree.flagObjs[f].name \in DOMAIN tree.commands[stack[k0]].flags
          \/ /\ tok = ShortFlag(tree.flagObjs[f].shortName)
             /\ tree.flagObjs[f].shortName
                    \in DOMAIN tree.commands[stack[k0]].flagsByShortName

ArgShadows(stack, tok, k, a, v) ==
    /\ SetsArg(stack, tok, k, a, v)
    /\ \E k0 \in 1..(k - 1) :
          \/ /\ tok = LongArg(tree.argObjs[a].name, v)
             /\ tree.argObjs[a].name \in DOMAIN tree.commands[stack[k0]].args
          \/ /\ tok = ShortArg(tree.argObjs[a].shortName, v)
             /\ tree.argObjs[a].shortName
                    \in DOMAIN tree.commands[stack[k0]].argsByShortName

\* a token whose flag name several levels declare is recorded at the
\* innermost of them the first time and refused as a duplicate after that
C14_FlagStep ==
    Consuming =>
    \A k \in 1..Len(commandStack), f \in FlagIds :
        FlagShadows(commandStack, NextTok, k, f) =>
            IF FirstFlagUse
            THEN /\ pc' \in {"loop", "exited"}
                 /\ results' = [results EXCEPT ![semanticStack[k]].flags =
                                                   @ \cup {tree.flagObjs[f].name}]
            ELSE /\ pc' = "done"
                 /\ ret' = [res |-> 0,
                            err |-> Error("flagMulti", tree.flagObjs[f].name)]
                 /\ results' = results

C14_ArgStep ==
    Consuming =>
    \A k \in 1..Len(commandStack), a \in ArgIds :
        \A v \in Suffixes(NextTok) :
            ArgShadows(commandStack, NextTok, k, a, v) =>
                IF FirstArgUse
                THEN ValuesAccepted(commandStack, NextTok) =>
                        /\ pc' = "loop"
                        /\ results' =
                              [results EXCEPT ![semanticStack[k]].Arguments =
                                  MapPut(@, tree.argObjs[a].name, TypedValue(a, v))]
                ELSE /\ pc' = "done"
                     /\ ret' = [res |-> 0,
                                err |-> Error("argMulti", tree.argObjs[a].name)]
                     /\ results' = results

\* while the parse goes on or after it succeeded, the same-named flag or
\* argument of every level below stays unset (an argument may hold its
\* default once the parse is over)
C14_AncestorUnset ==
    (pc = "loop" \/ Succeeded) =>
        \A i \in 1..pos, k \in 1..Len(commandStack), k0 \in 1..Len(commandStack) :
            /\ \A f \in FlagIds :
                  (/\ k0 < k
                   /\ FlagShadows(commandStack, Toks[i], k, f)
                   /\ tree.flagObjs[f].name
                          \in DOMAIN tree.commands[commandStack[k0]].flags) =>
                      /\ tree.flagObjs[f].name \in ScopeResult(1, k).flags
                      /\ tree.flagObjs[f].name \notin ScopeResult(1, k0).flags
            /\ \A a \in ArgIds : \A v \in Suffixes(Toks[i]) :
                  (/\ k0 < k
                   /\ ArgShadows(commandStack, Toks[i], k, a, v)
                   /\ tree.argObjs[a].name
                          \in DOMAIN tree.commands[commandStack[k0]].args) =>
                      LET below == tree.argObjs[
                              tree.commands[commandStack[k0]].args[tree.argObjs[a].name]]
                          res0  == ScopeResult(1, k0).Arguments
                      IN  /\ tree.argObjs[a].name \in DOMAIN ScopeResult(1, k).Arguments
                          /\ tree.argObjs[a].name \in DOMAIN res0 =>
                                /\ pc = "done"
                                /\ below.defaultValue.typ # "nil"
                                /\ res0[tree.argObjs[a].name] = below.defaultValue

\* C14: when several commands of the stack declare the name a token
\* carries, the token resolves to the innermost of them: it is recorded in
\* that command's Result only, the ancestor's flag or argument of that name
\* stays unset, and a second such token fails as a duplicate.
C14_InnermostWins ==
    []C14_AncestorUnset /\ [][C14_FlagStep /\ C14_ArgStep]_vars

\* the second token for a flag that the subcommand and the root both declare
\* was refused, and the root's flag is still unset
C14_Witness ==
    /\ pc = "done"
    /\ ret.err.kind = "flagMulti"
    /\ Len(commandStack) = 2
    /\ \E f \in FlagIds :
          /\ FlagShadows(commandStack, Toks[pos], 2, f)
          /\ tree.flagObjs[f].name \in ScopeResult(1, 2).flags
          /\ tree.flagObjs[f].name \notin ScopeResult(1, 1).flags

\* token i was met with the final innermost command on top of the stack:
\* the tokens before it that are not dashed are the subcommand names
InTopScope(i) == i >= Len(commandStack)

\* C15: when the innermost command declares a primary argument, two consumed
\* tokens of its scope that are in neither dash form make ParseArgs fail at
\* the second one with "multiple primary arguments"; a single one is the
\* primary-argument value of the innermost Result, verbatim.
C15_MultiplePrimaryFails ==
    (pc \in {"loop", "done"} /\ HasPrimaryArg(Top)) =>
        /\ \A i, j \in 1..pos :
              (/\ i < j
               /\ InTopScope(i)
               /\ ~IsDashed(Toks[i])
               /\ ~IsDashed(Toks[j])) =>
                  /\ pc = "done"
                  /\ pos = j
                  /\ ret = [res |-> 0,
                            err |-> Error("multiPrimary", tree.commands[Top].Name)]
        /\ \A i \in 1..pos :
              (/\ InTopScope(i)
               /\ ~IsDashed(Toks[i])
               /\ \A j \in 1..pos : (j # i /\ InTopScope(j)) => IsDashed(Toks[j])) =>
                  ScopeResult(1, Len(commandStack)).primaryArg = Toks[i]

\* ParseArgs stopped at token i with an error
FailedAt(i) ==
    /\ pc = "done"
    /\ pos = i
    /\ ret.err.kind \notin {"nil", "requiresSubcommand"}

\* a dash token that ends in its only "=": a name with an empty value
EmptyValued(tok) == IsDashed(tok) /\ Index(tok, Eq) = Len(tok)

\* C16: a flag and an argument of one command may share full and short name
\* without configuration error; a token without =value is resolved against
\* the flags and one with =value against the arguments, so the first token
\* for the flag and the first accepted token for the argument are both
\* recorded, whatever tokens of the other kind came before.  (Tokens of the
\* form --name= are neither: token lists are read up to the first of them.)
C16_IndependentNamespaces ==
    /\ ~tree.fatal
    /\ \A i \in 1..pos, k \in 1..Len(commandStack) :
          /\ \A f \in FlagIds :
                (/\ SetsFlag(commandStack, Toks[i], k, f)
                 /\ \A j \in 1..(i - 1) :
                       /\ ~SameFlag(commandStack, Toks[j], Toks[i])
                       /\ ~EmptyValued(Toks[j])) =>
                    /\ ~FailedAt(i)
                    /\ tree.flagObjs[f].name \in ScopeResult(1, k).flags
          /\ \A a \in ArgIds : \A v \in Suffixes(Toks[i]) :
                (/\ SetsArg(commandStack, Toks[i], k, a, v)
                 /\ Unset(i, k, a)
                 /\ ValuesAccepted(commandStack, Toks[i])) =>
                    /\ ~FailedAt(i)
                    /\ tree.argObjs[a].name \in DOMAIN ScopeResult(1, k).Arguments
                    /\ ScopeResult(1, k).Arguments[tree.argObjs[a].name]
                           = TypedValue(a, v)

\* the flag and the argument that share name and short name were both set
\* by tokens of one successful parse
C16_Witness ==
    /\ Succeeded
    /\ \E f \in FlagIds, a \in ArgIds :
          /\ tree.flagObjs[f].name = tree.argObjs[a].name
          /\ tree.flagObjs[f].shortName = tree.argObjs[a].shortName
          /\ \E i \in 1..pos : SetsFlag(commandStack, Toks[i], 1, f)
          /\ \E i \in 1..pos : \E v \in Suffixes(Toks[i]) :
                SetsArg(commandStack, Toks[i], 1, a, v)
          /\ tree.flagObjs[f].name \in results[ret.res].flags
          /\ tree.argObjs[a].name \in DOMAIN results[ret.res].Arguments

IsLong(tok) == HasPrefix(tok, <<Dash, Dash>>)

\* a dash token without its one or two leading dashes
Body(tok) == IF IsLong(tok) THEN SubSeq(tok, 3, Len(tok)) ELSE SubSeq(tok, 2, Len(tok))

\* the name a dash token carries: what stands before the first "="
DashName(tok) ==
    IF Contains(Body(tok), Eq)
    THEN SubSeq(Body(tok), 1, Index(Body(tok), Eq) - 1)
    ELSE Body(tok)

\* some command of the stack declares the name in its map `field`
Declared(stack, field, name) ==
    \E k \in 1..Len(stack) : name \in DOMAIN tree.commands[stack[k]][field]

\* C17: a consumed dash token whose name no command of the stack declares
\* makes ParseArgs fail at that token: with the unknown-flag error when it
\* has no =value, with the unknown-argument error when it has one.
C17_UnknownNameFails ==
    \A i \in 1..pos :
        IsDashed(Toks[i]) =>
            /\ (/\ ~Contains(Toks[i], Eq)
                /\ ~Declared(commandStack,
                             IF IsLong(Toks[i]) THEN "flags" ELSE "flagsByShortName",
                             DashName(Toks[i]))) =>
                   /\ pc = "done"
                   /\ pos = i
                   /\ ret = [res |-> 0,
                             err |-> Error(IF IsLong(Toks[i]) THEN "unknownFlag"
                                           ELSE "unknownFlagShort",
                                           DashName(Toks[i]))]
            /\ (/\ Contains(Toks[i], Eq)
                /\ ~EmptyValued(Toks[i])
                /\ ~Declared(commandStack,
                             IF IsLong(Toks[i]) THEN "args" ELSE "argsByShortName",
                             DashName(Toks[i]))) =>
                   /\ pc = "done"
                   /\ pos = i
                   /\ ret = [res |-> 0,
                             err |-> Error(IF IsLong(Toks[i]) THEN "unknownArg"
                                           ELSE "unknownArgShort",
                                           DashName(Toks[i]))]

\* inside a subcommand, the flag of a command that is not on the stack was
\* refused as unknown
C17_Witness ==
    /\ pc = "done"
    /\ ret.err.kind \in {"unknownFlag", "unknownFlagShort"}
    /\ Len(commandStack) = 2
    /\ \E c \in 1..Len(tree.commands) :
          /\ \A k \in 1..Len(commandStack) : commandStack[k] # c
          /\ ret.err.name \in DOMAIN tree.commands[c].flags
                                \cup DOMAIN tree.commands[c].flagsByShortName

\* the commands entered when the tokens before token i are all subcommand
\* names; the chain has i commands exactly in that case
ChainBefore(i) == ChainOf(1, SubSeq(Toks, 1, i - 1))

\* C18: a consumed token that follows subcommand names only, is not dashed
\* and is not the name of a child of the command those names lead to, that
\* command having no primary argument, makes ParseArgs fail at that token
\* with "unknown subcommand".
C18_OnlyChildrenOfInnermost ==
    \A i \in 1..pos :
        (/\ Len(ChainBefore(i)) = i
         /\ ~IsDashed(Toks[i])
         /\ ~HasPrimaryArg(ChainBefore(i)[i])
         /\ Toks[i] \notin DOMAIN tree.commands[ChainBefore(i)[i]].subcommands) =>
            /\ pc = "done"
            /\ pos = i
            /\ commandStack = ChainBefore(i)
            /\ ret = [res |-> 0, err |-> Error("unknownSubcommand", Toks[i])]

\* inside a subcommand, the name of another child of the root was refused
C18_Witness ==
    /\ pc = "done"
    /\ ret.err.kind = "unknownSubcommand"
    /\ allowSubcommands
    /\ Len(commandStack) = 2
    /\ Toks[pos] \in DOMAIN tree.commands[1].subcommands

----------------------------------------------------------------------------
(* Properties of the help flag, checked under SpecHelp *)

\* the latest call on the root command left its help flag enabled
HelpOn ==
    \/ lastCall.op = "NewCLI" /\ lastCall.helpEnabled
    \/ lastCall.op = "EnableHelp"

HelpOff ==
    \/ lastCall.op = "NewCLI" /\ ~lastCall.helpEnabled
    \/ lastCall.op = "DisableHelp"

\* the program gave one of its own flags the name help or the short name h
OwnFlagNamedHelp ==
    \E f \in FlagsOf(1) :
        /\ tree.flagObjs[f].action # "help"
        /\ \/ tree.flagObjs[f].name = HelpName
           \/ tree.flagObjs[f].shortName = HelpShort

\* C19: parsed right after NewCLI with help enabled or after EnableHelp,
\* --help and -h are accepted and flag "help" is recorded; parsed right after
\* NewCLI with help disabled or after DisableHelp, both are refused as
\* unknown flags (the program having no flag of its own under these names).
C19_HelpToggle ==
    pos = 1 =>
        /\ HelpOn =>
              /\ ~FailedAt(1)
              /\ HelpName \in results[1].flags
        /\ (HelpOff /\ ~OwnFlagNamedHelp) =>
              /\ pc = "done"
              /\ ret = [res |-> 0,
                        err |-> Error(IF IsLong(Toks[1]) THEN "unknownFlag"
                                      ELSE "unknownFlagShort",
                                      DashName(Toks[1]))]

----------------------------------------------------------------------------
(* What ParseArgs hands back, checked under Spec *)

\* C20: ParseArgs returns the root Result and no error, or an error and the
\* nil Result; before it returns the caller holds neither.
C20_ResultXorError ==
    /\ Returned =>
          \/ ret.res = 1 /\ ret.err = NoError
          \/ ret.res = 0 /\ ret.err.kind # "nil"
    /\ ~Returned => ret = NoReturn

\* a token was refused after earlier tokens had been recorded: the Result
\* that holds them is not returned
C20_Witness ==
    /\ Returned
    /\ ret.res = 0
    /\ ret.err.kind # "nil"
    /\ pos >= 2
    /\ results[1].flags # {} \/ DOMAIN results[1].Arguments # {}

----------------------------------------------------------------------------
(* A second call made after the first has returned, on the same tree and   *)
(* the same tokens after the program name.                                 *)

\* what stands in a[0]: the program name, or a word that looks like a flag
\* or like a subcommand
FirstTokens == {Olive, LongFlag(<<"v", "b">>), <<"b", "u">>}

ParseAgain ==
    /\ pc = "done"
    /\ \E first \in FirstTokens : PeerParseArgsOf(<<first>> \o Tail(args))

NextAgain ==
    \/ ParseArgs
    \/ Consume
    \/ Finish
    \/ ParseAgain
    \/ PeerConsume
    \/ PeerFinish

SpecAgain == Init /\ [][NextAgain]_vars

----------------------------------------------------------------------------
(* C21: parsing the same token list against the same tree twice *)

PeerReturned == peer.pc = "done"

\* the outcome of the second call is the outcome of the first: the same error,
\* or the same heap of Results (flags, Arguments, primaryArg, subcommand links)
SameOutcome ==
    /\ peer.ret = ret
    /\ ret.err.kind = "nil" => peer.ap.results = results

----------------------------------------------------------------------------
(* C22: the command tree is read-only during a parse *)

\* the fields of a command that the builder fills
Declarations(t, c) ==
    [flags              |-> t.commands[c].flags,
     flagsByShortName   |-> t.commands[c].flagsByShortName,
     args               |-> t.commands[c].args,
     argsByShortName    |-> t.commands[c].argsByShortName,
     primaryArg         |-> t.commands[c].primaryArg,
     subcommands        |-> t.commands[c].subcommands,
     RequiresSubcommand |-> t.commands[c].RequiresSubcommand]

C22_Step ==
    (pc # "idle" \/ pc' # "idle") =>
        /\ Len(tree'.commands) = Len(tree.commands)
        /\ \A c \in 1..Len(tree.commands) :
              Declarations(tree', c) = Declarations(tree, c)
        /\ tree'.flagObjs = tree.flagObjs
        /\ tree'.argObjs = tree.argObjs

\* C22: no step of ParseArgs, in a parse that succeeds or in one that fails,
\* changes a command's flags, arguments, short-name mirrors, primary
\* argument, subcommands or RequiresSubcommand, nor a Flag or an Argument
C22_TreeReadOnly == [][C22_Step]_vars

\* a parse has entered a subcommand, set a flag and written a value there
C22_Witness ==
    /\ Returned
    /\ Len(commandStack) >= 2
    /\ \E r \in 2..Len(results) :
          results[r].flags # {} /\ DOMAIN results[r].Arguments # {}

----------------------------------------------------------------------------
(* Two calls that run at the same time on one tree, their iterations       *)
(* interleaved in every way.                                               *)

MaxParArgs == 2

\* TestCorrectMixedCLI: a subcommand, its primary argument, a flag and a named
\* argument that two levels declare, and the help flag
ParTokens ==
    { <<"b", "u">>, <<"p", "k">>, LongFlag(<<"v", "b">>),
      <<"-", "u", "=", "a", "b">>, ShortFlag(HelpShort) }

ParLists ==
    UNION {{<<Olive>> \o l : l \in [1..n -> ParTokens]} : n \in 0..MaxParArgs}

InitPar ==
    /\ tree = SubsCLI(TRUE, FALSE)
    /\ args \in ParLists
    /\ ncalls = 0
    /\ lastCall = Call("NewCLI", 1, Olive, EmptyStr)
    /\ ParserIdle

PeerParseArgs == \E a \in ParLists : PeerParseArgsOf(a)

NextPar ==
    \/ ParseArgs
    \/ Consume
    \/ Finish
    \/ PeerParseArgs
    \/ PeerConsume
    \/ PeerFinish

SpecPar == InitPar /\ [][NextPar]_vars

----------------------------------------------------------------------------
(* C23: two calls on one tree at the same time *)

\* the outcome of ParseArgs(cli, a) run alone
Alone(a) == parse(tree, Tail(a))

\* how the first call ended, what it returned and the Results it handed out
MainOutcome ==
    [pc |-> pc, ret |-> ret, results |-> IF Succeeded THEN results ELSE <<>>]

PeerOutcome ==
    [pc      |-> peer.pc,
     ret     |-> peer.ret,
     results |-> IF peer.pc = "done" /\ peer.ret.err.kind = "nil"
                 THEN peer.ap.results ELSE <<>>]

\* C23: when two ParseArgs calls run at the same time on one tree, with their
\* token steps interleaved in any way, each call that ends has the outcome it
\* has when it runs alone
C23_ConcurrentAsAlone ==
    /\ pc \in {"done", "exited"} => MainOutcome = Alone(args)
    /\ peer.pc \in {"done", "exited"} => PeerOutcome = Alone(peer.args)

\* the second call began while the first was inside its loop; the first then
\* entered a subcommand and both returned, on different token lists
C23_Witness ==
    /\ Succeeded
    /\ PeerReturned
    /\ peer.startedAt.pc = "loop"
    /\ peer.startedAt.pos < Len(Toks)
    /\ peer.args # args
    /\ Len(commandStack) >= 2
    /\ ~peer.ap.allowSubcommands

----------------------------------------------------------------------------
(* C24: the first token *)

\* C24: ParseArgs drops the first token unread: a call whose token list
\* differs from another's in the first token only, be it a word with dashes
\* or the name of a subcommand, ends the way the other does
C24_FirstTokenDiscarded ==
    (peer.pc \in {"done", "exited"} /\ Tail(peer.args) = Toks)
        => /\ PeerReturned
           /\ peer.ret = ret
           /\ peer.ap.results = results

\* the list began with the name of a subcommand of the root, or with a flag
\* the root declares, and the call succeeded as it does after the program name
C24_Witness ==
    /\ PeerReturned
    /\ Tail(peer.args) = Toks
    /\ Len(Toks) >= 1
    /\ \/ peer.args[1] \in DOMAIN tree.commands[1].subcommands
       \/ /\ IsLong(peer.args[1])
          /\ Body(peer.args[1]) \in DOMAIN tree.commands[1].flags
    /\ peer.ret.err.kind = "nil"
    /\ Succeeded

----------------------------------------------------------------------------
(* C25: the actions of flags *)

\* the flags this step has marked present: the level of the stack and the name
NewlySet ==
    {ln \in (1..Len(commandStack')) \X {flg.name : flg \in Range(tree.flagObjs)} :
        /\ ln[2] \in results'[semanticStack'[ln[1]]].flags
        /\ \/ ln[1] > Len(commandStack)
           \/ ln[2] \notin results[semanticStack[ln[1]]].flags}

\* the Flag that level i of the stack declares under the full name n
FlagAt(stack, i, n) == tree.commands[stack[i]].flags[n]

\* a step of the loop runs the action of the flag it has marked present, once,
\* and no other action
C25_Step ==
    (pc = "loop" /\ pc' # "idle") =>
        /\ Cardinality(NewlySet) <= 1
        /\ NewlySet = {} => calls' = calls
        /\ \A ln \in NewlySet :
              LET f == FlagAt(commandStack', ln[1], ln[2])
              IN  /\ pos' = pos + 1
                  /\ calls' = IF tree.flagObjs[f].action # "nil"
                              THEN Append(calls, f) ELSE calls

\* the flags marked present so far that carry an action
SetWithAction ==
    {ln \in (1..Len(commandStack)) \X {flg.name : flg \in Range(tree.flagObjs)} :
        /\ ln[2] \in results[semanticStack[ln[1]]].flags
        /\ tree.flagObjs[FlagAt(commandStack, ln[1], ln[2])].action # "nil"}

\* at every moment, also when the parse has failed, the actions run so far are
\* those of the flags marked present, each once
C25_AllRun ==
    /\ Len(calls) = Cardinality(SetWithAction)
    /\ {calls[j] : j \in 1..Len(calls)} =
           {FlagAt(commandStack, ln[1], ln[2]) : ln \in SetWithAction}

\* C25: the action of a flag runs once each time the flag is marked present,
\* inside the step of its token and so in token order; it does not run for an
\* occurrence refused as a duplicate; when a later token fails, the actions
\* of the flags set before it have run
C25_ActionOncePerSetFlag == []C25_AllRun /\ [][C25_Step]_vars

\* a flag with an action was set, then its second occurrence was refused: the
\* action has run once
C25_Witness ==
    /\ Returned
    /\ ret.err.kind = "flagMulti"
    /\ Len(calls) = 1
    /\ \E j \in 1..pos - 1 : \E k \in 1..Len(commandStack) :
          SetsFlag(commandStack, Toks[j], k, calls[1])

----------------------------------------------------------------------------
(* C26: errors are terminal *)

\* ParseArgs has returned the error of a token
TokenError == ret.err.kind \notin {"nil", "requiresSubcommand"}

\* the step that meets the error returns, and nothing moves after a return
C26_Step ==
    /\ (pc = "loop" /\ TokenError') => pc' = "done"
    /\ pc = "done" => UNCHANGED <<pos, commandStack, semanticStack, results,
                                  allowSubcommands, calls, validated, ret>>

\* the named argument a of level k got its value from a token before token i
SetBefore(i, k, a) ==
    \E j \in 1..(i - 1) : \E w \in Suffixes(Toks[j]) :
        SetsArg(commandStack, Toks[j], k, a, w)

\* after the error of token pos: the actions and the validator calls are
\* those of the tokens up to it, and every value in a Result was given by a
\* token before it, none by the default pass
C26_NothingLater ==
    (Returned /\ TokenError) =>
        /\ pos >= 1
        /\ Len(calls) <= pos - 1
        /\ Len(validated) <= pos
        /\ \A k \in 1..Len(commandStack) :
              \A n \in DOMAIN results[semanticStack[k]].Arguments :
                  \E a \in ArgIds : /\ tree.argObjs[a].name = n
                                    /\ SetBefore(pos, k, a)

\* C26: the first token that gives an error ends the parse: no later token
\* is consumed, so no later action runs and no later value is checked, and
\* neither the test for a missing subcommand nor the default pass is made
C26_ErrorsAreTerminal == []C26_NothingLater /\ [][C26_Step]_vars

\* a token was refused with tokens still to come, in a command that requires
\* a subcommand and below one whose argument has a default
C26_Witness ==
    /\ Returned
    /\ TokenError
    /\ pos < Len(Toks)
    /\ \E j \in (pos + 1)..Len(Toks) : IsDashed(Toks[j])
    /\ \E k \in 1..Len(commandStack) : \E a \in ArgIds :
          /\ a \in Range(tree.commands[commandStack[k]].args)
          /\ tree.argObjs[a].defaultValue.typ # "nil"
          /\ tree.argObjs[a].name \notin DOMAIN results[semanticStack[k]].Arguments

----------------------------------------------------------------------------
(* C27: the two stacks and the chain of Results *)

\* the commands entered by the subcommand tokens among the first pos tokens
Entered == ChainOf(1, SubSeq(Toks, 1, pos))

\* C27: in every state of a parse the command stack and the stack of Results
\* have the same length, one more than the subcommand tokens consumed; each
\* command above the first is a child the command below it declares, each
\* Result below the top has the next Result as its subcommand under that
\* child's name, and the top Result has no subcommand
C27_StacksAndChain ==
    pc # "idle" =>
        /\ Len(commandStack) = Len(semanticStack)
        /\ Len(commandStack) = Len(Entered)
        /\ \A i \in 1..(Len(commandStack) - 1) :
              LET name == tree.commands[commandStack[i + 1]].Name
              IN  /\ name \in DOMAIN tree.commands[commandStack[i]].subcommands
                  /\ tree.commands[commandStack[i]].subcommands[name] =
                         commandStack[i + 1]
                  /\ results[semanticStack[i]].subcommandRes = semanticStack[i + 1]
                  /\ results[semanticStack[i]].subcommandName = name
        /\ results[semanticStack[Len(semanticStack)]].subcommandRes = 0
        /\ results[semanticStack[Len(semanticStack)]].subcommandName = EmptyStr

\* two subcommand tokens were consumed: a chain of three Results
C27_Witness ==
    /\ pc \in {"loop", "done"}
    /\ Len(commandStack) = 3
    /\ pos >= 2
    /\ results[1].subcommandRes = semanticStack[2]
    /\ results[semanticStack[2]].subcommandRes = semanticStack[3]

----------------------------------------------------------------------------
(* C28: the latch *)

\* the next token is a word the innermost command takes as a subcommand
SubcommandToken ==
    /\ ~IsDashed(NextTok)
    /\ ~HasPrimaryArg(Top)
    /\ allowSubcommands
    /\ NextTok \in DOMAIN tree.commands[Top].subcommands

C28_Step ==
    /\ (pc = "idle" /\ pc' = "loop") => allowSubcommands'
    /\ Consuming =>
          /\ IsDashed(NextTok) => ~allowSubcommands'
          /\ (~IsDashed(NextTok) /\ HasPrimaryArg(Top)) => ~allowSubcommands'
          /\ SubcommandToken =>
                /\ allowSubcommands'
                /\ Len(commandStack') = Len(commandStack) + 1
    /\ (pc # "idle" /\ ~allowSubcommands) =>
          /\ ~allowSubcommands'
          /\ Len(commandStack') = Len(commandStack)
          /\ Len(semanticStack') = Len(semanticStack)
          /\ Len(results') = Len(results)

\* C28: the latch is true when the parse starts; every token with a dash and
\* every word taken as a primary argument clears it, also a token that is
\* then refused; a subcommand token leaves it set; once cleared it stays
\* cleared to the end of the parse, and the two stacks grow no more
C28_Latch == [][C28_Step]_vars

\* after a subcommand the latch was still set; the flag that followed cleared
\* it and the word after the flag was refused
C28_Witness ==
    /\ Returned
    /\ ~allowSubcommands
    /\ pos = 3
    /\ Len(commandStack) = 2
    /\ IsDashed(Toks[2])
    /\ Toks[3] \in DOMAIN tree.commands[Top].subcommands
    /\ ret.err.kind = "unknownSubcommand"

----------------------------------------------------------------------------
(* C29: the default pass *)

\* the step is the end of parse() after a loop without error
Finishing == pc = "loop" /\ pc' = "done" /\ pos' = pos

\* the names of the arguments command c declares with a default
DefaultNames(c) ==
    {tree.argObjs[a].name : a \in {b \in Range(tree.commands[c].args) :
                                      tree.argObjs[b].defaultValue.typ # "nil"}}

\* the default command c declares for the name n
DefaultOf(c, n) == tree.argObjs[tree.commands[c].args[n]].defaultValue

C29_Step ==
    Finishing =>
        /\ Len(results') = Len(results)
        /\ commandStack' = commandStack
        /\ semanticStack' = semanticStack
        /\ \A k \in 1..Len(commandStack) :
              LET c   == commandStack[k]
                  old == results[semanticStack[k]]
                  new == results'[semanticStack[k]]
              IN  /\ new.flags = old.flags
                  /\ new.primaryArg = old.primaryArg
                  /\ new.subcommandRes = old.subcommandRes
                  /\ new.subcommandName = old.subcommandName
                  /\ \A n \in DOMAIN old.Arguments :
                        /\ n \in DOMAIN new.Arguments
                        /\ new.Arguments[n] = old.Arguments[n]
                  /\ IF ret'.err.kind = "nil"
                     THEN /\ DOMAIN new.Arguments =
                                 DOMAIN old.Arguments \cup DefaultNames(c)
                          /\ \A n \in DefaultNames(c) \ DOMAIN old.Arguments :
                                new.Arguments[n] = DefaultOf(c, n)
                     ELSE new.Arguments = old.Arguments

\* C29: the default pass writes, for every command of the final stack, the
\* default of each argument that command declares with a default and that
\* has no value in that command's Result, into that Result; it leaves every
\* value a token gave, every flag, every primary argument and every
\* subcommand link as they were, and makes no new Result
C29_DefaultPass == [][C29_Step]_vars

\* the root and the subcommand both declare ou with a default: the token gave
\* the subcommand's, the default pass gave the root's
C29_Witness ==
    /\ Succeeded
    /\ Len(commandStack) = 2
    /\ \E n \in DefaultNames(1) \cap DefaultNames(commandStack[2]) :
          /\ n \in DOMAIN results[1].Arguments
          /\ n \in DOMAIN results[semanticStack[2]].Arguments
          /\ results[1].Arguments[n] = DefaultOf(1, n)
          /\ results[semanticStack[2]].Arguments[n] # DefaultOf(commandStack[2], n)

----------------------------------------------------------------------------
(* C30: the order of the tokens after the subcommands *)

\* the tokens that follow the subcommand names, and the command they address
Prefix == SubSeq(Toks, 1, Len(Chain) - 1)

Tokens == SubSeq(Toks, Len(Chain), Len(Toks))

Addressed == Chain[Len(Chain)]

\* every token after the subcommand names is a flag or named-argument token,
\* or a word the addressed command takes as its primary argument
OnlyFlagsArgsPrimary ==
    \A j \in 1..Len(Tokens) : IsDashed(Tokens[j]) \/ HasPrimaryArg(Addressed)

Permuted(toks, p) == [j \in 1..Len(toks) |-> toks[p[j]]]

ParseSucceeded(o) == o.pc = "done" /\ o.ret.err.kind = "nil"

\* C30: ParseArgs on the tokens after the subcommand names taken in another
\* order succeeds exactly when it succeeds on the order given, and then with
\* the same Results
C30_OrderIndependent ==
    (pc \in {"done", "exited"} /\ OnlyFlagsArgsPrimary) =>
        \A p \in Permutations(1..Len(Tokens)) :
            LET o == parse(tree, Prefix \o Permuted(Tokens, p))
            IN  /\ ParseSucceeded(o) <=> Succeeded
                /\ Succeeded => o.results = results

----------------------------------------------------------------------------
(* C31: flag or named argument *)

FlagErrors == {"unknownFlag", "unknownFlagShort", "flagMulti"}

ArgErrors == {"unknownArg", "unknownArgShort", "argMulti", "syntax", "notValid",
              "validator"}

\* what the step did belongs to a flag: it marked one, ran an action, or
\* returned an error about a flag
TakenAsFlag ==
    \/ \E r \in 1..Len(results) : results'[r].flags # results[r].flags
    \/ calls' # calls
    \/ ret'.err.kind \in FlagErrors

\* what the step did belongs to a named argument
TakenAsArg ==
    \/ \E r \in 1..Len(results) : results'[r].Arguments # results[r].Arguments
    \/ validated' # validated
    \/ ret'.err.kind \in ArgErrors

C31_Step ==
    (Consuming /\ IsDashed(NextTok)) =>
        IF Contains(NextTok, Eq)
        THEN TakenAsArg /\ ~TakenAsFlag
        ELSE TakenAsFlag /\ ~TakenAsArg

\* C31: a token with a dash is taken as a flag exactly when it holds no "=";
\* with an "=" it is taken as a named argument, also when nothing follows
\* the "=" (--name=)
C31_FlagIffNoEquals == [][C31_Step]_vars

----------------------------------------------------------------------------
(* Token forms: one command with a flag fl/f and a string argument st/s,   *)
(* run on tokens of every dash count with and without "=".  With `crossed` *)
(* the command also has a flag f/fl and an argument s/st, whose full name  *)
(* is the short name of the first and whose short name is its full name.   *)

FormsCLI(crossed) ==
    LET t0 == NewCLI(Olive, FALSE)
        t1 == SetAction(AddFlag(t0, 1, <<"f", "l">>, <<"f">>, "nil"), 1, "user")
        t2 == AddStringArg(t1, 1, <<"s", "t">>, <<"s">>, FALSE)
        t3 == AddFlag(t2, 1, <<"f">>, <<"f", "l">>, "nil")
    IN  IF crossed THEN AddStringArg(t3, 1, <<"s">>, <<"s", "t">>, FALSE) ELSE t2

FormsTokens ==
    { <<"-", "-", "f", "l">>, <<"-", "f">>, <<"-", "-", "f">>, <<"-", "f", "l">>,
      <<"-", "-", "s", "t", "=", "a">>, <<"-", "s", "=", "a">>,
      <<"-", "-", "s", "=", "a">>, <<"-", "s", "t", "=", "a">>,
      <<"-", "-", "-", "f", "l">>, <<"-", "-", "-", "s", "t", "=", "a">>,
      <<"-", "-", "s", "t", "=", "a", "=", "b">>, <<"-", "s", "=", "=">> }

InitForms ==
    /\ \E crossed \in BOOLEAN : tree = FormsCLI(crossed)
    /\ args \in ArgLists(FormsTokens)
    /\ ncalls = 0
    /\ lastCall = Call("NewCLI", 1, Olive, EmptyStr)
    /\ ParserIdle

SpecForms == InitForms /\ [][Next]_vars

----------------------------------------------------------------------------
(* C32: full names and short names *)

LeadingDashes(tok) == Len(tok) - Len(TrimLeft(tok, Dash))

HasValue(tok) == Contains(tok, Eq)

\* the map of a command a dash token of this form is to be looked up in
FieldOf(tok) ==
    IF IsLong(tok)
    THEN IF HasValue(tok) THEN "args" ELSE "flags"
    ELSE IF HasValue(tok) THEN "argsByShortName" ELSE "flagsByShortName"

\* the error of a dash token of this form whose name is not found
UnknownOf(tok) ==
    IF IsLong(tok)
    THEN IF HasValue(tok) THEN "unknownArg" ELSE "unknownFlag"
    ELSE IF HasValue(tok) THEN "unknownArgShort" ELSE "unknownFlagShort"

\* the step records the flag f at level k and no other flag
RecordsFlag(k, f) ==
    /\ tree.flagObjs[f].name \in results'[semanticStack[k]].flags
    /\ NewlySet \subseteq {<<k, tree.flagObjs[f].name>>}
    /\ ret'.err.kind \in {"nil", "flagMulti"}
    /\ \A r \in 1..Len(results) : results'[r].Arguments = results[r].Arguments

\* the step hands the value to the argument a at level k and to no other
RecordsArg(k, a) ==
    /\ ret'.err.kind \in {"nil", "argMulti", "syntax", "notValid", "validator"}
    /\ ret'.err.kind = "nil" =>
           tree.argObjs[a].name \in DOMAIN results'[semanticStack[k]].Arguments
    /\ \A r \in 1..Len(results) :
           /\ results'[r].flags = results[r].flags
           /\ \A n \in DOMAIN results'[r].Arguments \ DOMAIN results[r].Arguments :
                  r = semanticStack[k] /\ n = tree.argObjs[a].name

C32_Step ==
    (/\ Consuming
     /\ IsDashed(NextTok)
     /\ LeadingDashes(NextTok) <= 2
     /\ ~EmptyValued(NextTok)) =>
        IF Declared(commandStack, FieldOf(NextTok), DashName(NextTok))
        THEN \E k \in 1..Len(commandStack) :
                /\ Innermost(commandStack, k, FieldOf(NextTok), DashName(NextTok))
                /\ \E id \in {tree.commands[commandStack[k]][FieldOf(NextTok)]
                                                          [DashName(NextTok)]} :
                       IF HasValue(NextTok) THEN RecordsArg(k, id)
                       ELSE RecordsFlag(k, id)
        ELSE /\ pc' = "done"
             /\ ret'.err = Error(UnknownOf(NextTok), DashName(NextTok))
             /\ results' = results

\* C32: a token with two dashes is looked up among the full names only and
\* a token with one dash among the short names only, flags and arguments
\* alike: --<short name> and -<full name> fail as unknown unless the same
\* text is also a full name, or a short name, on the command stack
C32_FullAndShortApart == [][C32_Step]_vars

\* -fl has been refused on a command whose flag fl has the short name f
C32_Witness ==
    /\ pc = "done"
    /\ pos >= 1
    /\ Toks[pos] = ShortFlag(<<"f", "l">>)
    /\ <<"f", "l">> \in DOMAIN tree.commands[1].flags
    /\ ret.err = Error("unknownFlagShort", <<"f", "l">>)

----------------------------------------------------------------------------
(* C33: tokens with three or more dashes *)

C33_Step ==
    (Consuming /\ LeadingDashes(NextTok) >= 3) =>
        /\ results' = results
        /\ calls' = calls
        /\ validated' = validated

\* C33: a token with three or more leading dashes (---name, ---name=value)
\* is not accepted as the flag or the argument `name`: it marks no flag,
\* runs no action and gives no argument a value
C33_ThreeDashesRefused == [][C33_Step]_vars

----------------------------------------------------------------------------
(* C34: name and raw value of a token with "=" *)

\* the text of a dash token after its first "="
RawValue(tok) == SubSeq(tok, Index(tok, Eq) + 1, Len(tok))

\* the step stores the raw value of the token, as a string, under the name
\* of the argument the token names
C34_Step ==
    (/\ Consuming
     /\ IsDashed(NextTok)
     /\ LeadingDashes(NextTok) <= 2
     /\ HasValue(NextTok)
     /\ ~EmptyValued(NextTok)
     /\ Declared(commandStack, FieldOf(NextTok), DashName(NextTok))) =>
        \E k \in 1..Len(commandStack) :
            /\ Innermost(commandStack, k, FieldOf(NextTok), DashName(NextTok))
            /\ \E a \in {tree.commands[commandStack[k]][FieldOf(NextTok)]
                                                      [DashName(NextTok)]} :
                   \/ ret'.err = Error("argMulti", tree.argObjs[a].name)
                   \/ /\ ret'.err.kind = "nil"
                      /\ results'[semanticStack[k]].Arguments[tree.argObjs[a].name]
                             = StringValue(RawValue(NextTok))

\* C34: for a token with "=", the name is the text between the dashes and
\* the first "=", and the raw value is all that follows the first "=",
\* further "=" included: --st=a=b gives the string argument st the value a=b
C34_ValueAfterFirstEquals == [][C34_Step]_vars

\* --st=a=b has given st the value a=b
C34_Witness ==
    /\ Succeeded
    /\ Len(Toks) = 1
    /\ Toks[1] = LongArg(<<"s", "t">>, <<"a", "=", "b">>)
    /\ <<"s", "t">> \in DOMAIN results[1].Arguments
    /\ results[1].Arguments[<<"s", "t">>] = StringValue(<<"a", "=", "b">>)
----------------------------------------------------------------------------
(* C35: EnableHelp and DisableHelp called again *)

\* the step is the builder call op
Calls(op) == ncalls' = ncalls + 1 /\ lastCall'.op = op

\* the command has a flag registered under the full name help
HelpRegistered(c) == HelpName \in DOMAIN tree.commands[c].flags

C35_Step ==
    /\ (Calls("EnableHelp") /\ HelpRegistered(lastCall'.c)) => tree' = tree
    /\ (Calls("DisableHelp") /\ ~HelpRegistered(lastCall'.c)) => tree' = tree

\* C35: EnableHelp on a command whose help flag is registered, and
\* DisableHelp on a command that has no help flag, leave the command tree
\* as it is and raise no configuration error
C35_HelpCallsIdempotent == [][C35_Step]_vars

----------------------------------------------------------------------------
(* C36: the maps by full name and by short name *)

\* the map `field` of command c leads to the object id under the name n
Reaches(c, field, n, id) ==
    /\ n \in DOMAIN tree.commands[c][field]
    /\ tree.commands[c][field][n] = id

FlagsMirror(c) ==
    \A f \in 1..Len(tree.flagObjs) :
        Reaches(c, "flags", tree.flagObjs[f].name, f)
            <=> Reaches(c, "flagsByShortName", tree.flagObjs[f].shortName, f)

ArgsMirror(c) ==
    \A a \in 1..Len(tree.argObjs) :
        Reaches(c, "args", tree.argObjs[a].name, a)
            <=> Reaches(c, "argsByShortName", tree.argObjs[a].shortName, a)

\* C36: after builder calls that raised no configuration error, every
\* command reaches a flag under its full name if and only if it reaches it
\* under its short name, and likewise an argument
C36_MapsMirror ==
    ~tree.fatal => \A c \in Commands : FlagsMirror(c) /\ ArgsMirror(c)

----------------------------------------------------------------------------
(* C37: the attribute `required` *)

\* the places of a tree that hold a `required` attribute: its named
\* arguments and the primary arguments of its commands
RequiredSites(t) ==
    {<<"arg", a>> : a \in 1..Len(t.argObjs)}
    \cup {<<"primary", c>> : c \in {d \in 1..Len(t.commands) :
                                       t.commands[d].primaryArg # <<>>}}

\* the tree with `required` true at the sites of S and false at the others
WithRequired(t, S) ==
    [t EXCEPT
       !.argObjs  = [a \in DOMAIN t.argObjs |->
                        [t.argObjs[a] EXCEPT !.required = (<<"arg", a>> \in S)]],
       !.commands = [c \in DOMAIN t.commands |->
                        IF t.commands[c].primaryArg = <<>> THEN t.commands[c]
                        ELSE [t.commands[c] EXCEPT
                                !.primaryArg[1].required = (<<"primary", c>> \in S)]]]

\* the sites of the tree whose `required` is true
RequiredOf(t) ==
    {s \in RequiredSites(t) :
        IF s[1] = "arg" THEN t.argObjs[s[2]].required
        ELSE t.commands[s[2]].primaryArg[1].required}

\* a required argument without default of a command of the stack that no
\* token has given a value
Omitted(k, a) ==
    /\ a \in Range(tree.commands[commandStack[k]].args)
    /\ tree.argObjs[a].required
    /\ ~GetDefaultValue(tree.argObjs[a]).ok
    /\ ~ArgIsSet(k, a)

\* C37: `required` has no part in parsing: ParseArgs on a tree that differs
\* from the one parsed in `required` attributes only, of named and of
\* primary arguments, ends the same way with equal Results; a call that
\* succeeds leaves a required argument that has no default and was given no
\* value out of the Result
C37_RequiredIgnored ==
    pc \in {"done", "exited"} =>
        /\ WithRequired(tree, RequiredOf(tree)) = tree
        /\ \A S \in SUBSET RequiredSites(tree) :
               parse(WithRequired(tree, S), Toks) = MainOutcome
        /\ Succeeded =>
               \A k \in 1..Len(commandStack), a \in ArgIds :
                   Omitted(k, a) =>
                       tree.argObjs[a].name
                           \notin DOMAIN results[semanticStack[k]].Arguments

\* a call has succeeded without a value for the required string argument,
\* which has no default
C37_Witness ==
    /\ Succeeded
    /\ \E k \in 1..Len(commandStack), a \in ArgIds :
           /\ Omitted(k, a)
           /\ tree.argObjs[a].name \notin DOMAIN results[semanticStack[k]].Arguments
    /\ \E S \in SUBSET RequiredSites(tree) : WithRequired(tree, S) # tree

====
